---- MODULE Spec2Model ----
(***************************************************************************)
(* The composition buffer of mozc (composer/internal/composition.cc): an   *)
(* ordered list of CharChunks, the input transliterator, and the public    *)
(* operations that insert, delete and map cursor positions between views.  *)
(*                                                                         *)
(* Strings are sequences of one-character strings.  A transliterator       *)
(* (rendering policy) is one of "null" (kNullT12r: ask the chunk), "RAW"   *)
(* (the raw keystrokes) and "CONV" (the converted text).                   *)
(*                                                                         *)
(* CharChunk, Table and the transliterators are not part of               *)
(* composition.cc; they are modelled from the specification's chunk        *)
(* contract (section 4.1) and rule-table interface (section 6).  The       *)
(* buffer starts as the constructor and SetTable leave it.                 *)
(***************************************************************************)
EXTENDS Integers, Sequences, FiniteSets, TLC

VARIABLES
    chunks,      \* chunks_: the ordered CharChunkList
    input_t12r,  \* input_t12r_: transliterator given to newly created chunks
    crashed,     \* TRUE once an operation has dereferenced chunks_.end(): the
                 \* process died or its memory is corrupt, nothing follows
    table        \* the contents of the Table that table_ points to: shared
                 \* with other buffers, never owned (key |-> result)

vars == <<chunks, input_t12r, crashed, table>>

----------------------------------------------------------------------------
(* Bounds of the model. *)

\* Largest buffer the insert operations may build, in units of text.
MaxSize == 3

----------------------------------------------------------------------------
(* Strings. *)

Prefix(s, n) == SubSeq(s, 1, n)

Suffix(s, n) == SubSeq(s, n + 1, Len(s))

IsPrefix(a, b) == Len(a) <= Len(b) /\ Prefix(b, Len(a)) = a

EndsWith(s, t) == Len(t) <= Len(s) /\ Suffix(s, Len(s) - Len(t)) = t

Max(a, b) == IF a >= b THEN a ELSE b

Min(a, b) == IF a <= b THEN a ELSE b

\* string::npos, the size_t made from -1: "up to the end".
npos == -1

\* Util::SubString: the length units of src from unit start on, fewer when
\* src ends before.
SubString(src, start, length) ==
    LET from == Min(start, Len(src))
        rest == Len(src) - from
        n    == IF length = npos \/ length > rest THEN rest ELSE length
    IN  SubSeq(src, from + 1, from + n)

----------------------------------------------------------------------------
(* Transliterators. *)

kNullT12r == "null"

ConcreteT12r == {"RAW", "CONV"}

AllT12r == {kNullT12r} \cup ConcreteT12r

----------------------------------------------------------------------------
(* Rule table: "ka" -> KA, "ki" -> KI, "tto" -> XTU TO; "k", "t", "tt" are  *)
(* proper prefixes of a key and stay pending.                              *)

kTable ==
    [key \in {<<"k", "a">>, <<"k", "i">>, <<"t", "t", "o">>} |->
        CASE key = <<"k", "a">> -> <<"KA">>
          [] key = <<"k", "i">> -> <<"KI">>
          [] key = <<"t", "t", "o">> -> <<"XTU", "TO">>]

\* The keys of the rules of the table the buffer refers to.
TableKeys == DOMAIN table

TableResult(key) == table[key]

\* Longest prefix of key that is the key of a rule (0 when there is none).
EntryLength(key) ==
    LET ns == {n \in 1..Len(key) : Prefix(key, n) \in TableKeys}
    IN  IF ns = {} THEN 0 ELSE CHOOSE n \in ns : \A m \in ns : m <= n

\* Longest prefix of key that is a prefix of the key of some rule.
UsedKeyLength(key) ==
    LET ns == {n \in 0..Len(key) : \E k \in TableKeys : IsPrefix(Prefix(key, n), k)}
    IN  CHOOSE n \in ns : \A m \in ns : m <= n

----------------------------------------------------------------------------
(* CharChunk. *)

EmptyChunk == [raw |-> <<>>, conversion |-> <<>>, pending |-> <<>>, t12r |-> kNullT12r]

ChunkIsEmpty(c) == c.raw = <<>> /\ c.conversion = <<>> /\ c.pending = <<>>

\* The transliterator in effect for a request t on chunk c.
EffectiveT12r(c, t) == IF t # kNullT12r THEN t ELSE c.t12r

Transliterate(c, t, raw, converted) ==
    IF EffectiveT12r(c, t) = "RAW" THEN raw ELSE converted

ChunkString(c, t) == Transliterate(c, t, c.raw, c.conversion \o c.pending)

ChunkLength(c, t) == Len(ChunkString(c, t))

\* AppendTrimedResult: only the converted text, pending text dropped.
ChunkTrimedString(c, t) == Transliterate(c, t, c.raw, c.conversion)

\* AppendFixedResult: pending text that is the key of a rule is converted,
\* any other pending text is kept as it is.
ChunkFixedString(c, t) ==
    Transliterate(c, t, c.raw,
                  c.conversion \o (IF c.pending \in TableKeys
                                   THEN TableResult(c.pending) ELSE c.pending))

IsAppendable(c, t) == c.pending # <<>> /\ (t = kNullT12r \/ t = c.t12r)

SetChunkT12r(c, t) == [c EXCEPT !.t12r = t]

\* add_input: feeds key to the chunk through the table; [chunk, rest].
AddInput(c, key) ==
    LET k     == c.pending \o key
        elen  == EntryLength(k)
        ulen  == UsedKeyLength(k)
        plen  == Len(c.pending)
    IN  IF key = <<>>
        THEN [chunk |-> c, rest |-> key]
        ELSE IF elen > plen
        THEN \* a rule matched: its result is committed, nothing stays pending
             [chunk |-> [c EXCEPT !.raw = c.raw \o Prefix(key, elen - plen),
                                  !.conversion = c.conversion
                                                 \o TableResult(Prefix(k, elen)),
                                  !.pending = <<>>],
              rest  |-> Suffix(key, elen - plen)]
        ELSE IF ulen > plen
        THEN \* still a proper prefix of some rule: the used input stays pending
             [chunk |-> [c EXCEPT !.raw = c.raw \o Prefix(key, ulen - plen),
                                  !.pending = c.pending \o Prefix(key, ulen - plen)],
              rest  |-> Suffix(key, ulen - plen)]
        ELSE IF plen = 0
        THEN \* no rule starts with the first character: it converts to itself
             [chunk |-> [c EXCEPT !.raw = c.raw \o Prefix(key, 1),
                                  !.conversion = c.conversion \o Prefix(key, 1)],
              rest  |-> Suffix(key, 1)]
        ELSE \* the pending text cannot be extended: a fresh chunk is needed
             [chunk |-> c, rest |-> key]

\* add_input_and_converted: an empty chunk takes the pair as it is, any
\* other chunk signals that a fresh chunk is required.
AddInputAndConvertedChar(c, raw_char, converted_char) ==
    IF ChunkIsEmpty(c)
    THEN [chunk |-> [c EXCEPT !.raw = raw_char, !.conversion = converted_char],
          raw |-> <<>>, converted |-> <<>>]
    ELSE [chunk |-> c, raw |-> raw_char, converted |-> converted_char]

\* split_at: [ok, left, right]; the left part has exactly position units
\* under the transliterator in effect, the original keeps the remainder.
SplitChunk(c, t, position) ==
    IF position <= 0 \/ position >= ChunkLength(c, t)
    THEN [ok |-> FALSE, left |-> EmptyChunk, right |-> c]
    ELSE
    LET converted == c.conversion \o c.pending
        byRaw     == EffectiveT12r(c, t) = "RAW"
        rawCut    == IF byRaw THEN position
                     ELSE IF c.raw = converted THEN position
                     ELSE Max(0, Len(c.raw) - (Len(converted) - position))
        raw_lhs   == Prefix(c.raw, rawCut)
        raw_rhs   == Suffix(c.raw, rawCut)
        conv_lhs  == IF ~byRaw THEN Prefix(converted, position)
                     ELSE IF EndsWith(converted, raw_rhs)
                          THEN Prefix(converted, Len(converted) - Len(raw_rhs))
                          ELSE raw_lhs
        conv_rhs  == IF ~byRaw THEN Suffix(converted, position)
                     ELSE raw_rhs
    IN  IF Len(conv_lhs) > Len(c.conversion)
        THEN [ok |-> TRUE,
              left |-> [raw |-> raw_lhs, conversion |-> c.conversion,
                        pending |-> Suffix(conv_lhs, Len(c.conversion)),
                        t12r |-> c.t12r],
              right |-> [raw |-> raw_rhs, conversion |-> <<>>,
                         pending |-> conv_rhs, t12r |-> c.t12r]]
        ELSE [ok |-> TRUE,
              left |-> [raw |-> raw_lhs, conversion |-> conv_lhs,
                        pending |-> <<>>, t12r |-> c.t12r],
              right |-> [raw |-> raw_rhs,
                         conversion |-> Prefix(conv_rhs,
                                          Max(0, Len(conv_rhs) - Len(c.pending))),
                         pending |-> c.pending, t12r |-> c.t12r]]

----------------------------------------------------------------------------
(* Composition: private helpers.  An iterator is an index 1..Len(cs)+1, *)
(* Len(cs)+1 being chunks_.end().                                          *)

EndIt(cs) == Len(cs) + 1

RECURSIVE GetPositionSkipFirst(_, _, _)
\* GetPosition starting its sum at the second chunk.
GetPositionSkipFirst(cs, t, it) ==
    IF it <= 2 THEN 0
    ELSE GetPositionSkipFirst(cs, t, it - 1) + ChunkLength(cs[it - 1], t)

RECURSIVE GetPosition(_, _, _)
\* Sum of the lengths under t of the chunks before iterator it.
GetPosition(cs, t, it) ==
    IF it <= 1 THEN 0
    ELSE GetPosition(cs, t, it - 1) + ChunkLength(cs[it - 1], t)

GetLengthOf(cs, t) == GetPosition(cs, t, EndIt(cs))

GetLength == GetLengthOf(chunks, kNullT12r)

RECURSIVE GetChunkAtFromStrict(_, _, _, _)
\* The loop of GetChunkAt stopping only where the rest is less than the
\* length of the chunk.
GetChunkAtFromStrict(cs, t, it, rest_pos) ==
    IF it > Len(cs)
    THEN [it |-> Len(cs), inner |-> ChunkLength(cs[Len(cs)], t)]
    ELSE IF rest_pos < ChunkLength(cs[it], t)
    THEN [it |-> it, inner |-> rest_pos]
    ELSE GetChunkAtFromStrict(cs, t, it + 1, rest_pos - ChunkLength(cs[it], t))

RECURSIVE GetChunkAtFromNoClamp(_, _, _, _)
\* The loop of GetChunkAt giving the rest of the position, not the length
\* of the last chunk, when it runs off the list.
GetChunkAtFromNoClamp(cs, t, it, rest_pos) ==
    IF it > Len(cs)
    THEN [it |-> Len(cs), inner |-> rest_pos + ChunkLength(cs[Len(cs)], t)]
    ELSE IF rest_pos <= ChunkLength(cs[it], t)
    THEN [it |-> it, inner |-> rest_pos]
    ELSE GetChunkAtFromNoClamp(cs, t, it + 1, rest_pos - ChunkLength(cs[it], t))

RECURSIVE GetChunkAtFrom(_, _, _, _)
\* The loop of GetChunkAt from iterator it on, with rest_pos still to walk.
GetChunkAtFrom(cs, t, it, rest_pos) ==
    IF it > Len(cs)
    THEN [it |-> Len(cs), inner |-> ChunkLength(cs[Len(cs)], t)]
    ELSE IF rest_pos <= ChunkLength(cs[it], t)
    THEN [it |-> it, inner |-> rest_pos]
    ELSE GetChunkAtFrom(cs, t, it + 1, rest_pos - ChunkLength(cs[it], t))

GetChunkAt(cs, position, t) ==
    IF cs = <<>>
    THEN [it |-> 1, inner |-> 0]
    ELSE GetChunkAtFrom(cs, t, 1, position)

InsertBefore(cs, it, c) == SubSeq(cs, 1, it - 1) \o <<c>> \o SubSeq(cs, it, Len(cs))

RemoveAt(cs, it) == SubSeq(cs, 1, it - 1) \o SubSeq(cs, it + 1, Len(cs))

\* MaybeSplitChunkAt without the step to the next chunk when the position is
\* the end of the chunk found.
MaybeSplitChunkAtNoStep(cs, pos) ==
    IF pos <= 0
    THEN {[cs |-> cs, it |-> 1, fault |-> FALSE]}
    ELSE IF cs = <<>>
    THEN {[cs |-> cs, it |-> 1, fault |-> TRUE],
          [cs |-> cs, it |-> 1, fault |-> FALSE]}
    ELSE
    LET at == GetChunkAt(cs, pos, kNullT12r)
        sp == SplitChunk(cs[at.it], kNullT12r, at.inner)
    IN  IF at.inner = ChunkLength(cs[at.it], kNullT12r)
        THEN {[cs |-> cs, it |-> at.it, fault |-> FALSE]}
        ELSE {[cs |-> InsertBefore([cs EXCEPT ![at.it] = sp.right], at.it, sp.left),
               it |-> at.it + 1, fault |-> FALSE]}

\* MaybeSplitChunkAt leaving the new left chunk as CharChunk() made it,
\* without the transliterator of the chunk it was split from.
MaybeSplitChunkAtFreshLeft(cs, pos) ==
    IF pos <= 0
    THEN {[cs |-> cs, it |-> 1, fault |-> FALSE]}
    ELSE IF cs = <<>>
    THEN {[cs |-> cs, it |-> 1, fault |-> TRUE],
          [cs |-> cs, it |-> 1, fault |-> FALSE]}
    ELSE
    LET at == GetChunkAt(cs, pos, kNullT12r)
        sp == SplitChunk(cs[at.it], kNullT12r, at.inner)
    IN  IF at.inner = ChunkLength(cs[at.it], kNullT12r)
        THEN {[cs |-> cs, it |-> at.it + 1, fault |-> FALSE]}
        ELSE {[cs |-> InsertBefore([cs EXCEPT ![at.it] = sp.right], at.it,
                                   SetChunkT12r(sp.left, kNullT12r)),
               it |-> at.it + 1, fault |-> FALSE]}

\* MaybeSplitChunkAt putting the new left chunk behind the chunk it was
\* split from.
MaybeSplitChunkAtSwapped(cs, pos) ==
    IF pos <= 0
    THEN {[cs |-> cs, it |-> 1, fault |-> FALSE]}
    ELSE IF cs = <<>>
    THEN {[cs |-> cs, it |-> 1, fault |-> TRUE],
          [cs |-> cs, it |-> 1, fault |-> FALSE]}
    ELSE
    LET at == GetChunkAt(cs, pos, kNullT12r)
        sp == SplitChunk(cs[at.it], kNullT12r, at.inner)
    IN  IF at.inner = ChunkLength(cs[at.it], kNullT12r)
        THEN {[cs |-> cs, it |-> at.it + 1, fault |-> FALSE]}
        ELSE {[cs |-> InsertBefore([cs EXCEPT ![at.it] = sp.left], at.it, sp.right),
               it |-> at.it + 1, fault |-> FALSE]}

\* The outcomes of MaybeSplitChunkAt: [cs, it, fault].  With pos > 0 on an
\* empty list the code reads **it at chunks_.end(): the build may fault
\* (die, or go on with a garbage chunk), or may find the garbage length
\* equal to inner_position 0 and step the iterator back onto end().
MaybeSplitChunkAt(cs, pos) ==
    IF pos <= 0
    THEN {[cs |-> cs, it |-> 1, fault |-> FALSE]}
    ELSE IF cs = <<>>
    THEN {[cs |-> cs, it |-> 1, fault |-> TRUE],
          [cs |-> cs, it |-> 1, fault |-> FALSE]}
    ELSE
    LET at == GetChunkAt(cs, pos, kNullT12r)
        sp == SplitChunk(cs[at.it], kNullT12r, at.inner)
    IN  IF at.inner = ChunkLength(cs[at.it], kNullT12r)
        THEN {[cs |-> cs, it |-> at.it + 1, fault |-> FALSE]}
        ELSE {[cs |-> InsertBefore([cs EXCEPT ![at.it] = sp.right], at.it, sp.left),
               it |-> at.it + 1, fault |-> FALSE]}

\* InsertChunk leaving the new chunk as CharChunk() made it, without the
\* input transliterator.
InsertChunkNoT12r(cs, it, t) ==
    [cs |-> InsertBefore(cs, it, EmptyChunk), it |-> it + 1]

\* InsertChunk: a new chunk with the input transliterator before it; the
\* iterator keeps designating the same (right) chunk.
InsertChunk(cs, it, t) ==
    [cs |-> InsertBefore(cs, it, SetChunkT12r(EmptyChunk, t)), it |-> it + 1]

\* GetInsertionChunk making a new chunk whatever stands left of the iterator.
GetInsertionChunkAlwaysNew(cs, it, t) ==
    [cs |-> InsertChunk(cs, it, t).cs, it |-> it + 1, chunk |-> it]

\* GetInsertionChunk handing out the chunk at the iterator, where there is
\* one, instead of making a new chunk before it.
GetInsertionChunkRight(cs, it, t) ==
    IF it <= Len(cs)
    THEN [cs |-> cs, it |-> it, chunk |-> it]
    ELSE [cs |-> InsertChunk(cs, it, t).cs, it |-> it + 1, chunk |-> it]

\* GetInsertionChunk: [cs, it, chunk] with chunk the index of the chunk to feed.
GetInsertionChunk(cs, it, t) ==
    IF it = 1
    THEN [cs |-> InsertChunk(cs, it, t).cs, it |-> it + 1, chunk |-> it]
    ELSE IF IsAppendable(cs[it - 1], t)
    THEN [cs |-> cs, it |-> it, chunk |-> it - 1]
    ELSE [cs |-> InsertChunk(cs, it, t).cs, it |-> it + 1, chunk |-> it]

\* The loop of InsertAt leaving after the first AddInput, leftover or not.
FeedInputOnce(cs, it, chunk, key, t) ==
    [cs |-> [cs EXCEPT ![chunk] = AddInput(cs[chunk], key).chunk], it |-> it]

RECURSIVE FeedInputReversed(_, _, _, _, _)
\* The loop of InsertAt putting each new chunk before the chunk it has
\* just fed instead of before the iterator.
FeedInputReversed(cs, it, chunk, key, t) ==
    LET r   == AddInput(cs[chunk], key)
        cs1 == [cs EXCEPT ![chunk] = r.chunk]
    IN  IF r.rest = <<>>
        THEN [cs |-> cs1, it |-> it]
        ELSE FeedInputReversed(InsertBefore(cs1, chunk, SetChunkT12r(EmptyChunk, t)),
                               it + 1, chunk, r.rest, t)

RECURSIVE FeedInput(_, _, _, _, _)
\* The while (true) loop of InsertAt: [cs, it].
FeedInput(cs, it, chunk, key, t) ==
    LET r   == AddInput(cs[chunk], key)
        cs1 == [cs EXCEPT ![chunk] = r.chunk]
    IN  IF r.rest = <<>>
        THEN [cs |-> cs1, it |-> it]
        ELSE FeedInput(InsertChunk(cs1, it, t).cs, it + 1, it, r.rest, t)

RECURSIVE FeedKeyAndPreedit(_, _, _, _, _, _)
\* The while (true) loop of InsertKeyAndPreeditAt: [cs, it].
FeedKeyAndPreedit(cs, it, chunk, raw_char, converted_char, t) ==
    LET r   == AddInputAndConvertedChar(cs[chunk], raw_char, converted_char)
        cs1 == [cs EXCEPT ![chunk] = r.chunk]
    IN  IF r.raw = <<>> /\ r.converted = <<>>
        THEN [cs |-> cs1, it |-> it]
        ELSE FeedKeyAndPreedit(InsertChunk(cs1, it, t).cs, it + 1, it,
                               r.raw, r.converted, t)

----------------------------------------------------------------------------
(* Composition: queries. *)

\* ConvertPosition without the clamp of an inner position beyond the
\* chunk's length in the target view.
ConvertPositionNoClamp(cs, position_from, t_from, t_to) ==
    IF t_from = t_to THEN position_from
    ELSE
    LET at == GetChunkAt(cs, position_from, t_from)
    IN  IF at.it = EndIt(cs) THEN 0
        ELSE
        LET chunk_length_from == ChunkLength(cs[at.it], t_from)
            position_to       == GetPosition(cs, t_to, at.it)
            chunk_length_to   == ChunkLength(cs[at.it], t_to)
        IN  IF at.inner = 0 THEN position_to
            ELSE IF at.inner = chunk_length_from THEN position_to + chunk_length_to
            ELSE position_to + at.inner

\* ConvertPosition without the end-of-chunk case.
ConvertPositionNoEndCase(cs, position_from, t_from, t_to) ==
    IF t_from = t_to THEN position_from
    ELSE
    LET at == GetChunkAt(cs, position_from, t_from)
    IN  IF at.it = EndIt(cs) THEN 0
        ELSE
        LET position_to     == GetPosition(cs, t_to, at.it)
            chunk_length_to == ChunkLength(cs[at.it], t_to)
        IN  IF at.inner = 0 THEN position_to
            ELSE IF at.inner > chunk_length_to THEN position_to + chunk_length_to
            ELSE position_to + at.inner

\* ConvertPosition measuring the chunk's start in the source view.
ConvertPositionFromStart(cs, position_from, t_from, t_to) ==
    IF t_from = t_to THEN position_from
    ELSE
    LET at == GetChunkAt(cs, position_from, t_from)
    IN  IF at.it = EndIt(cs) THEN 0
        ELSE
        LET chunk_length_from == ChunkLength(cs[at.it], t_from)
            position_to       == GetPosition(cs, t_from, at.it)
            chunk_length_to   == ChunkLength(cs[at.it], t_to)
        IN  IF at.inner = 0 THEN position_to
            ELSE IF at.inner = chunk_length_from THEN position_to + chunk_length_to
            ELSE IF at.inner > chunk_length_to THEN position_to + chunk_length_to
            ELSE position_to + at.inner

\* ConvertPosition without the case of a position at the start of the
\* chunk found.
ConvertPositionNoStartCase(cs, position_from, t_from, t_to) ==
    IF t_from = t_to THEN position_from
    ELSE
    LET at == GetChunkAt(cs, position_from, t_from)
    IN  IF at.it = EndIt(cs) THEN 0
        ELSE
        LET chunk_length_from == ChunkLength(cs[at.it], t_from)
            position_to       == GetPosition(cs, t_to, at.it)
            chunk_length_to   == ChunkLength(cs[at.it], t_to)
        IN  IF at.inner = chunk_length_from THEN position_to + chunk_length_to
            ELSE IF at.inner > chunk_length_to THEN position_to + chunk_length_to
            ELSE position_to + at.inner

ConvertPosition(cs, position_from, t_from, t_to) ==
    IF t_from = t_to THEN position_from
    ELSE
    LET at == GetChunkAt(cs, position_from, t_from)
    IN  IF at.it = EndIt(cs) THEN 0
        ELSE
        LET chunk_length_from == ChunkLength(cs[at.it], t_from)
            position_to       == GetPosition(cs, t_to, at.it)
            chunk_length_to   == ChunkLength(cs[at.it], t_to)
        IN  IF at.inner = 0 THEN position_to
            ELSE IF at.inner = chunk_length_from THEN position_to + chunk_length_to
            ELSE IF at.inner > chunk_length_to THEN position_to + chunk_length_to
            ELSE position_to + at.inner

\* GetTransliterator taking the chunk right of the position when the
\* position is the end of a chunk that has a successor.
GetTransliteratorResultRight(cs, position) ==
    IF cs = <<>>
    THEN {[ret |-> kNullT12r, fault |-> TRUE]}
         \cup {[ret |-> t, fault |-> FALSE] : t \in AllT12r}
    ELSE LET at == GetChunkAt(cs, position, kNullT12r)
             it == IF at.inner = ChunkLength(cs[at.it], kNullT12r) /\ at.it < Len(cs)
                   THEN at.it + 1 ELSE at.it
         IN  {[ret |-> EffectiveT12r(cs[it], kNullT12r), fault |-> FALSE]}

\* The outcomes of GetTransliterator(position): [ret, fault].  On an empty
\* list chunk_it is chunks_.end() and (*chunk_it)->GetTransliterator reads
\* through it: the build may die or return whatever it finds there.
GetTransliteratorResult(cs, position) ==
    IF cs = <<>>
    THEN {[ret |-> kNullT12r, fault |-> TRUE]}
         \cup {[ret |-> t, fault |-> FALSE] : t \in AllT12r}
    ELSE LET at == GetChunkAt(cs, position, kNullT12r)
         IN  {[ret |-> EffectiveT12r(cs[at.it], kNullT12r), fault |-> FALSE]}

\* The assertions of ConvertPosition: [check, dcheck], FALSE where the
\* CHECK on the source length or the DCHECK on the target length is reached
\* and fails, TRUE where it holds or is not reached.
ConvertPositionChecks(cs, position_from, t_from, t_to) ==
    IF t_from = t_to THEN [check |-> TRUE, dcheck |-> TRUE]
    ELSE
    LET at == GetChunkAt(cs, position_from, t_from)
    IN  IF at.it = EndIt(cs) THEN [check |-> TRUE, dcheck |-> TRUE]
        ELSE
        LET chunk_length_from == ChunkLength(cs[at.it], t_from)
            chunk_length_to   == ChunkLength(cs[at.it], t_to)
            check             == at.inner <= chunk_length_from
            reached           == /\ check
                                 /\ at.inner # 0
                                 /\ at.inner # chunk_length_from
                                 /\ ~(at.inner > chunk_length_to)
        IN  [check |-> check, dcheck |-> (reached => at.inner <= chunk_length_to)]

RECURSIVE GetStringOf(_, _)
\* The as-is renders of the chunks under t, concatenated.
GetStringOf(cs, t) ==
    IF cs = <<>> THEN <<>>
    ELSE ChunkString(Head(cs), t) \o GetStringOf(Tail(cs), t)

GetString == GetStringOf(chunks, kNullT12r)

TrimModes == {"TRIM", "ASIS", "FIX"}

\* What the switch of GetStringWithModes appends for chunk c.
AppendWithMode(c, t, trim_mode) ==
    CASE trim_mode = "TRIM" -> ChunkTrimedString(c, t)
      [] trim_mode = "ASIS" -> ChunkString(c, t)
      [] trim_mode = "FIX"  -> ChunkFixedString(c, t)
      [] OTHER              -> <<>>

RECURSIVE AppendResults(_, _, _, _)
\* The for loop of GetStringWithModes from iterator it on: AppendResult for
\* every chunk up to, not including, chunks_.back().
AppendResults(cs, t, it, composition) ==
    IF it >= Len(cs) THEN composition
    ELSE AppendResults(cs, t, it + 1, composition \o ChunkString(cs[it], t))

RECURSIVE AppendAllWithMode(_, _, _, _, _)
\* The chunks from it on, each appended as the trim mode has it.
AppendAllWithMode(cs, t, trim_mode, it, composition) ==
    IF it > Len(cs) THEN composition
    ELSE AppendAllWithMode(cs, t, trim_mode, it + 1,
                           composition \o AppendWithMode(cs[it], t, trim_mode))

\* GetStringWithModes applying the trim mode to every chunk.
GetStringWithModesTrimAll(cs, t, trim_mode, composition) ==
    IF cs = <<>> THEN <<>>
    ELSE AppendAllWithMode(cs, t, trim_mode, 1, <<>>)

\* GetStringWithModes without composition->clear().
GetStringWithModesNoClear(cs, t, trim_mode, composition) ==
    IF cs = <<>> THEN composition
    ELSE AppendResults(cs, t, 1, composition)
         \o AppendWithMode(cs[Len(cs)], t, trim_mode)

\* GetStringWithModes: what *composition holds on return, composition being
\* what it held at the call.
GetStringWithModes(cs, t, trim_mode, composition) ==
    IF cs = <<>> THEN <<>>
    ELSE AppendResults(cs, t, 1, <<>>)
         \o AppendWithMode(cs[Len(cs)], t, trim_mode)

\* GetStringWithTransliterator handing the trimming mode to the render.
GetStringWithTransliteratorTrim(cs, t, output) ==
    GetStringWithModes(cs, t, "TRIM", output)

\* GetStringWithTransliterator: what *output holds on return.
GetStringWithTransliterator(cs, t, output) ==
    GetStringWithModes(cs, t, "FIX", output)

\* GetString with the out-parameter: what *composition holds on return.
GetStringInto(cs, composition) ==
    IF cs = <<>> THEN <<>> ELSE GetStringOf(cs, kNullT12r)

\* GetPreedit with the right part starting at the position itself.
GetPreeditNoSkip(cs, position) ==
    LET composition == GetStringOf(cs, kNullT12r)
    IN  [left    |-> SubString(composition, 0, position),
         focused |-> SubString(composition, position, 1),
         right   |-> SubString(composition, position, npos)]

\* GetPreedit(position): [left, focused, right].
GetPreedit(cs, position) ==
    LET composition == GetStringOf(cs, kNullT12r)
    IN  [left    |-> SubString(composition, 0, position),
         focused |-> SubString(composition, position, 1),
         right   |-> SubString(composition, position + 1, npos)]

----------------------------------------------------------------------------
(* Inputs. *)

\* Input strings of InsertAt: the empty string, single keystrokes, and
\* strings that one chunk takes whole or that need a second chunk.
Inputs == {<<>>, <<"k">>, <<"a">>, <<"t">>, <<"o">>,
           <<"k", "a">>, <<"a", "k">>, <<"t", "t", "o">>}

\* Key/preedit pairs for text that arrives already converted.
KeyPreeditInputs == { << <<>>, <<>> >>,  << <<"a">>, <<"A">> >>,
                      << <<"a", "a">>, <<>> >>, << <<>>, <<"A">> >> }

RECURSIVE SizeOf(_)
\* Units of text held by the chunks (the larger of the two views per chunk).
SizeOf(cs) ==
    IF cs = <<>> THEN 0
    ELSE Max(Len(Head(cs).raw), Len(Head(cs).conversion) + Len(Head(cs).pending))
         + SizeOf(Tail(cs))

\* Positions handed to the operations: every position of the default view
\* and one beyond the end.
Positions == 0..(GetLength + 1)

\* What the caller's string holds when it is handed to a render.
Compositions == {<<>>, <<"x">>}

\* Transliterators handed to SetInputMode, SetTransliterator and
\* SetDisplayMode (the queries take every transliterator of AllT12r).
SetT12r == {kNullT12r, "RAW"}

----------------------------------------------------------------------------
(* Public operations. *)

Init ==
    /\ chunks = <<>>
    /\ input_t12r = kNullT12r
    /\ crashed = FALSE
    /\ table = kTable

\* InsertAt without the early return on empty input.
InsertAtResultNoGuard(cs, t, pos, input) ==
    {IF m.fault THEN [cs |-> cs, ret |-> pos, fault |-> TRUE]
     ELSE LET g == GetInsertionChunk(m.cs, m.it, t)
              f == FeedInput(g.cs, g.it, g.chunk, input, t)
          IN  [cs |-> f.cs, ret |-> GetPosition(f.cs, kNullT12r, f.it),
               fault |-> FALSE]
     : m \in MaybeSplitChunkAt(cs, pos)}

\* InsertAt returning the position before the chunk it fed first.
InsertAtResultBefore(cs, t, pos, input) ==
    IF input = <<>>
    THEN {[cs |-> cs, ret |-> pos, fault |-> FALSE]}
    ELSE {IF m.fault THEN [cs |-> cs, ret |-> pos, fault |-> TRUE]
          ELSE LET g == GetInsertionChunk(m.cs, m.it, t)
                   f == FeedInput(g.cs, g.it, g.chunk, input, t)
               IN  [cs |-> f.cs, ret |-> GetPosition(f.cs, kNullT12r, g.chunk),
                    fault |-> FALSE]
          : m \in MaybeSplitChunkAt(cs, pos)}

\* The outcomes of InsertAt(pos, input) on cs: [cs, ret, fault].
InsertAtResult(cs, t, pos, input) ==
    IF input = <<>>
    THEN {[cs |-> cs, ret |-> pos, fault |-> FALSE]}
    ELSE {IF m.fault THEN [cs |-> cs, ret |-> pos, fault |-> TRUE]
          ELSE LET g == GetInsertionChunk(m.cs, m.it, t)
                   f == FeedInput(g.cs, g.it, g.chunk, input, t)
               IN  [cs |-> f.cs, ret |-> GetPosition(f.cs, kNullT12r, f.it),
                    fault |-> FALSE]
          : m \in MaybeSplitChunkAt(cs, pos)}

\* InsertAt taking the rule whose key is the input out of the table.
InsertAtConsumingRule(pos, input) ==
    /\ ~crashed
    /\ SizeOf(chunks) + Len(input) <= MaxSize
    /\ \E r \in InsertAtResult(chunks, input_t12r, pos, input) :
          /\ chunks' = r.cs
          /\ crashed' = r.fault
    /\ table' = [key \in DOMAIN table \ {input} |-> table[key]]
    /\ UNCHANGED input_t12r

InsertAt(pos, input) ==
    /\ ~crashed
    /\ SizeOf(chunks) + Len(input) <= MaxSize
    /\ \E r \in InsertAtResult(chunks, input_t12r, pos, input) :
          /\ chunks' = r.cs
          /\ crashed' = r.fault
    /\ UNCHANGED <<input_t12r, table>>

\* The outcomes of InsertKeyAndPreeditAt(pos, key, preedit): [cs, ret, fault].
InsertKeyAndPreeditAtResult(cs, t, pos, key, preedit) ==
    IF key = <<>> /\ preedit = <<>>
    THEN {[cs |-> cs, ret |-> pos, fault |-> FALSE]}
    ELSE {IF m.fault THEN [cs |-> cs, ret |-> pos, fault |-> TRUE]
          ELSE LET g == GetInsertionChunk(m.cs, m.it, t)
                   f == FeedKeyAndPreedit(g.cs, g.it, g.chunk, key, preedit, t)
               IN  [cs |-> f.cs, ret |-> GetPosition(f.cs, kNullT12r, f.it),
                    fault |-> FALSE]
          : m \in MaybeSplitChunkAt(cs, pos)}

InsertKeyAndPreeditAt(pos, key, preedit) ==
    /\ ~crashed
    /\ SizeOf(chunks) + Max(Len(key), Len(preedit)) <= MaxSize
    /\ \E r \in InsertKeyAndPreeditAtResult(chunks, input_t12r, pos, key, preedit) :
          /\ chunks' = r.cs
          /\ crashed' = r.fault
    /\ UNCHANGED <<input_t12r, table>>

\* DeleteAt emptying the one-unit chunk in place instead of erasing it.
DeleteAtResultNoErase(cs, position) ==
    {IF m.fault THEN [cs |-> cs, ret |-> position, fault |-> TRUE]
     ELSE LET new_position == GetPosition(m.cs, kNullT12r, m.it)
          IN  IF m.it = EndIt(m.cs)
              THEN [cs |-> m.cs, ret |-> new_position, fault |-> FALSE]
              ELSE IF ChunkLength(m.cs[m.it], kNullT12r) = 1
              THEN [cs |-> [m.cs EXCEPT ![m.it] =
                              SetChunkT12r(EmptyChunk, m.cs[m.it].t12r)],
                    ret |-> new_position, fault |-> FALSE]
              ELSE [cs |-> [m.cs EXCEPT
                              ![m.it] = SplitChunk(m.cs[m.it], kNullT12r, 1).right],
                    ret |-> new_position, fault |-> FALSE]
     : m \in MaybeSplitChunkAt(cs, position)}

\* The outcomes of DeleteAt(position): [cs, ret, fault].
DeleteAtResult(cs, position) ==
    {IF m.fault THEN [cs |-> cs, ret |-> position, fault |-> TRUE]
     ELSE LET new_position == GetPosition(m.cs, kNullT12r, m.it)
          IN  IF m.it = EndIt(m.cs)
              THEN [cs |-> m.cs, ret |-> new_position, fault |-> FALSE]
              ELSE IF ChunkLength(m.cs[m.it], kNullT12r) = 1
              THEN [cs |-> RemoveAt(m.cs, m.it), ret |-> new_position,
                    fault |-> FALSE]
              ELSE [cs |-> [m.cs EXCEPT
                              ![m.it] = SplitChunk(m.cs[m.it], kNullT12r, 1).right],
                    ret |-> new_position, fault |-> FALSE]
     : m \in MaybeSplitChunkAt(cs, position)}

DeleteAt(position) ==
    /\ ~crashed
    /\ \E r \in DeleteAtResult(chunks, position) :
          /\ chunks' = r.cs
          /\ crashed' = r.fault
    /\ UNCHANGED <<input_t12r, table>>

RECURSIVE SetRangeToEnd(_, _, _, _)
\* The loop of SetTransliterator running on to the last chunk of the list.
SetRangeToEnd(cs, it, end_it, t) ==
    IF it > Len(cs) THEN cs
    ELSE SetRangeToEnd([cs EXCEPT ![it] = SetChunkT12r(cs[it], t)], it + 1, end_it, t)

RECURSIVE SetRange(_, _, _, _)
\* Sets the transliterator of the chunks from iterator it to end_it, both included.
SetRange(cs, it, end_it, t) ==
    IF it > end_it THEN cs
    ELSE SetRange([cs EXCEPT ![it] = SetChunkT12r(cs[it], t)], it + 1, end_it, t)

\* SetTransliterator putting the two positions in order instead of
\* returning when position_from is greater than position_to.
SetTransliteratorResultSwap(cs, position_from, position_to, t) ==
    LET lo == Min(position_from, position_to)
        hi == Max(position_from, position_to)
    IN  IF cs = <<>>
        THEN {[cs |-> cs, fault |-> TRUE], [cs |-> cs, fault |-> FALSE]}
        ELSE {[cs |-> SetRange(cs, GetChunkAt(cs, lo, kNullT12r).it,
                               GetChunkAt(cs, hi, kNullT12r).it, t),
               fault |-> FALSE]}

\* The outcomes of SetTransliterator: [cs, fault].  On an empty list end_it
\* is chunks_.end() and (*end_it)->SetTransliterator writes through it: the
\* build may die or the stray write may go unnoticed.
SetTransliteratorResult(cs, position_from, position_to, t) ==
    IF position_from > position_to
    THEN {[cs |-> cs, fault |-> FALSE]}
    ELSE IF cs = <<>>
    THEN {[cs |-> cs, fault |-> TRUE], [cs |-> cs, fault |-> FALSE]}
    ELSE {[cs |-> SetRange(cs, GetChunkAt(cs, position_from, kNullT12r).it,
                           GetChunkAt(cs, position_to, kNullT12r).it, t),
           fault |-> FALSE]}

SetTransliterator(position_from, position_to, t) ==
    /\ ~crashed
    /\ \E r \in SetTransliteratorResult(chunks, position_from, position_to, t) :
          /\ chunks' = r.cs
          /\ crashed' = r.fault
    /\ UNCHANGED <<input_t12r, table>>

SetInputMode(t) ==
    /\ ~crashed
    /\ input_t12r' = t
    /\ UNCHANGED <<chunks, crashed, table>>

\* The outcomes of SetDisplayMode: [cs, input, ret, fault], input being the
\* input transliterator it leaves and ret the length it returns.
SetDisplayModeResult(cs, input, position, t) ==
    {IF r.fault THEN [cs |-> cs, input |-> input, ret |-> 0, fault |-> TRUE]
     ELSE [cs |-> r.cs, input |-> t, ret |-> GetLengthOf(r.cs, kNullT12r),
           fault |-> FALSE]
     : r \in SetTransliteratorResult(cs, 0, GetLengthOf(cs, kNullT12r), t)}

SetDisplayMode(position, t) ==
    /\ ~crashed
    /\ \E r \in SetDisplayModeResult(chunks, input_t12r, position, t) :
          /\ chunks' = r.cs
          /\ crashed' = r.fault
          /\ input_t12r' = r.input
    /\ UNCHANGED table

\* Erase leaving the first chunk in the list.
EraseButFirst ==
    /\ ~crashed
    /\ chunks' = SubSeq(chunks, 1, Min(1, Len(chunks)))
    /\ UNCHANGED <<input_t12r, crashed, table>>

\* Erase putting the input transliterator back to the null one, as the
\* constructor leaves it.
EraseResetInputMode ==
    /\ ~crashed
    /\ chunks' = <<>>
    /\ input_t12r' = kNullT12r
    /\ UNCHANGED <<crashed, table>>

Erase ==
    /\ ~crashed
    /\ chunks' = <<>>
    /\ UNCHANGED <<input_t12r, crashed, table>>

\* The queries as steps of the buffer.  None of them assigns to chunks_,
\* input_t12r_ or table_; GetChunkAt, which ConvertPosition and
\* GetTransliterator call, is not const but only hands out an iterator.

\* ConvertPosition splitting the chunk at the position as the editing
\* operations do, instead of looking the chunk up.
CallConvertPositionSplitting(position_from, t_from, t_to) ==
    /\ ~crashed
    /\ \E m \in MaybeSplitChunkAt(chunks, position_from) :
          /\ chunks' = m.cs
          /\ crashed' = m.fault
    /\ UNCHANGED <<input_t12r, table>>

CallConvertPosition(position_from, t_from, t_to) ==
    /\ ~crashed
    /\ UNCHANGED <<chunks, input_t12r, crashed, table>>
    /\ ConvertPosition(chunks, position_from, t_from, t_to) \in Nat

\* GetTransliterator: on an empty list the read through chunks_.end() may
\* end the program.
CallGetTransliterator(position) ==
    /\ ~crashed
    /\ \E r \in GetTransliteratorResult(chunks, position) :
          crashed' = r.fault
    /\ UNCHANGED <<chunks, input_t12r, table>>

CallGetLength ==
    /\ ~crashed
    /\ UNCHANGED <<chunks, input_t12r, crashed, table>>
    /\ GetLength \in Nat

\* GetStringWithModes, and GetStringWithTransliterator and
\* GetStringWithTrimMode, which only call it.
CallGetStringWithModes(t, trim_mode, composition) ==
    /\ ~crashed
    /\ UNCHANGED <<chunks, input_t12r, crashed, table>>
    /\ Len(GetStringWithModes(chunks, t, trim_mode, composition)) \in Nat

CallGetString(composition) ==
    /\ ~crashed
    /\ UNCHANGED <<chunks, input_t12r, crashed, table>>
    /\ Len(GetStringInto(chunks, composition)) \in Nat

CallGetPreedit(position) ==
    /\ ~crashed
    /\ UNCHANGED <<chunks, input_t12r, crashed, table>>
    /\ Len(GetPreedit(chunks, position).left) \in Nat

Next ==
    \/ \E pos \in Positions, input \in Inputs : InsertAt(pos, input)
    \/ \E pos \in Positions, kp \in KeyPreeditInputs :
          InsertKeyAndPreeditAt(pos, kp[1], kp[2])
    \/ \E position \in Positions : DeleteAt(position)
    \/ \E pf \in Positions, pt \in Positions, t \in SetT12r :
          SetTransliterator(pf, pt, t)
    \/ \E t \in SetT12r : SetInputMode(t)
    \/ \E t \in SetT12r : SetDisplayMode(0, t)
    \/ Erase
    \/ \E pf \in Positions, tf \in AllT12r, tt \in AllT12r :
          CallConvertPosition(pf, tf, tt)
    \/ \E position \in Positions : CallGetTransliterator(position)
    \/ CallGetLength
    \/ \E t \in AllT12r, trim_mode \in TrimModes, composition \in Compositions :
          CallGetStringWithModes(t, trim_mode, composition)
    \/ \E composition \in Compositions : CallGetString(composition)
    \/ \E position \in Positions : CallGetPreedit(position)

Spec == Init /\ [][Next]_vars

----------------------------------------------------------------------------
(* Position Lookup as the specification words it, for stating properties. *)

\* Start and end of chunk c of cs in the view of t.
ChunkStart(cs, t, c) == GetPosition(cs, t, c)

ChunkEnd(cs, t, c) == GetPosition(cs, t, c + 1)

\* The leftmost chunk at which the running total of lengths under t reaches
\* or exceeds p (cs is not empty and p <= the length under t).
LookupChunk(cs, t, p) ==
    CHOOSE c \in 1..Len(cs) :
        /\ ChunkEnd(cs, t, c) >= p
        /\ \A j \in 1..(c - 1) : ChunkEnd(cs, t, j) < p

\* The four-case rule of convert_position for chunk c and inner offset i.
FourCase(cs, c, i, t_from, t_to) ==
    LET S == ChunkStart(cs, t_to, c)
        L == ChunkLength(cs[c], t_to)
    IN  IF i = 0 THEN S
        ELSE IF i = ChunkLength(cs[c], t_from) THEN S + L
        ELSE IF i > L THEN S + L
        ELSE S + i

----------------------------------------------------------------------------
(* Position conversion. *)

\* C1: for every pair of transliterators and every position_from in
\* 0..length(from), ConvertPosition returns what the four-case rule gives
\* for the chunk and inner offset that Position Lookup selects (0 on the
\* empty buffer).
C1_FourCaseRule ==
    \A tf \in AllT12r, tt \in AllT12r :
        \A p \in 0..GetLengthOf(chunks, tf) :
            ConvertPosition(chunks, p, tf, tt) =
                IF chunks = <<>> THEN 0
                ELSE LET c == LookupChunk(chunks, tf, p)
                     IN  FourCase(chunks, c, p - ChunkStart(chunks, tf, c), tf, tt)

\* C1 witness: a position strictly inside a chunk whose inner offset exceeds
\* the chunk's length in the target view (the clamping case), in a buffer
\* of at least two chunks.
C1_Witness ==
    /\ Len(chunks) >= 2
    /\ \E tf \in AllT12r, tt \in AllT12r :
         \E p \in 0..GetLengthOf(chunks, tf) :
            LET c == LookupChunk(chunks, tf, p)
                i == p - ChunkStart(chunks, tf, c)
            IN  /\ tf # tt
                /\ 0 < i
                /\ i < ChunkLength(chunks[c], tf)
                /\ i > ChunkLength(chunks[c], tt)
                /\ ConvertPosition(chunks, p, tf, tt) = ChunkEnd(chunks, tt, c)

\* C2 as claimed: the result lies in the span of the same chunk under the
\* target view, and the end of the chunk maps to the end of the chunk.
C2_Original ==
    \A tf \in AllT12r, tt \in AllT12r :
        \A p \in 0..GetLengthOf(chunks, tf) :
            chunks # <<>> =>
                LET c == LookupChunk(chunks, tf, p)
                    r == ConvertPosition(chunks, p, tf, tt)
                IN  /\ ChunkStart(chunks, tt, c) <= r
                    /\ r <= ChunkEnd(chunks, tt, c)
                    /\ (p = ChunkEnd(chunks, tf, c) => r = ChunkEnd(chunks, tt, c))

\* C2 amended: the result lies in the span of the same chunk under the
\* target view, and the end of the chunk maps to the end of the chunk
\* unless the chunk has length 0 under the source view (its end is then
\* its start, and start maps to start).
C2_SameChunk ==
    \A tf \in AllT12r, tt \in AllT12r :
        \A p \in 0..GetLengthOf(chunks, tf) :
            chunks # <<>> =>
                LET c == LookupChunk(chunks, tf, p)
                    r == ConvertPosition(chunks, p, tf, tt)
                IN  /\ ChunkStart(chunks, tt, c) <= r
                    /\ r <= ChunkEnd(chunks, tt, c)
                    /\ (p = ChunkEnd(chunks, tf, c) /\ ChunkLength(chunks[c], tf) > 0
                          => r = ChunkEnd(chunks, tt, c))
                    /\ (p = ChunkStart(chunks, tf, c) => r = ChunkStart(chunks, tt, c))

\* C2 witness: the end of a chunk with converted length 1 and raw length 2,
\* not the first chunk, maps from the converted view to the raw end of it.
C2_Witness ==
    \E c \in 2..Len(chunks) :
        /\ ChunkLength(chunks[c], "CONV") = 1
        /\ ChunkLength(chunks[c], "RAW") = 2
        /\ ConvertPosition(chunks, ChunkEnd(chunks, "CONV", c), "CONV", "RAW")
             = ChunkEnd(chunks, "RAW", c)
        /\ ChunkEnd(chunks, "RAW", c) = ChunkStart(chunks, "RAW", c) + 2

\* C3 as claimed: on the empty buffer ConvertPosition returns 0 for every
\* position and every pair of transliterators.
C3_Original ==
    chunks = <<>> =>
        \A tf \in AllT12r, tt \in AllT12r :
            \A p \in 0..(MaxSize + 1) : ConvertPosition(chunks, p, tf, tt) = 0

\* C4 as claimed: converting a position to another view and back lands in
\* the span of the chunk the position was in.
C4_Original ==
    \A P \in AllT12r, Q \in AllT12r :
        \A p \in 0..GetLengthOf(chunks, P) :
            chunks # <<>> =>
                LET c == LookupChunk(chunks, P, p)
                    q == ConvertPosition(chunks, p, P, Q)
                    b == ConvertPosition(chunks, q, Q, P)
                IN  ChunkStart(chunks, P, c) <= b /\ b <= ChunkEnd(chunks, P, c)

\* C4 amended: the round trip never lands right of the chunk the position
\* was in, and lands inside its span when that chunk has a length greater
\* than 0 under Q (with length 0 under Q the way back can stop at an
\* earlier chunk).
C4_RoundTrip ==
    \A P \in AllT12r, Q \in AllT12r :
        \A p \in 0..GetLengthOf(chunks, P) :
            chunks # <<>> =>
                LET c == LookupChunk(chunks, P, p)
                    q == ConvertPosition(chunks, p, P, Q)
                    b == ConvertPosition(chunks, q, Q, P)
                IN  /\ b <= ChunkEnd(chunks, P, c)
                    /\ (ChunkLength(chunks[c], Q) > 0 \/ p = 0
                          => ChunkStart(chunks, P, c) <= b)

\* C4 witness: a round trip from the converted view through the raw view
\* from a position inside the second chunk, whose two views differ in
\* length, that comes back into that chunk but not to the same position.
C4_Witness ==
    /\ Len(chunks) >= 2
    /\ ChunkLength(chunks[2], "RAW") > ChunkLength(chunks[2], "CONV")
    /\ ChunkLength(chunks[2], "CONV") > 0
    /\ \E p \in (ChunkStart(chunks, "RAW", 2) + 1)..ChunkEnd(chunks, "RAW", 2) :
          LET b == ConvertPosition(chunks,
                       ConvertPosition(chunks, p, "RAW", "CONV"), "CONV", "RAW")
          IN  b # p /\ ChunkStart(chunks, "RAW", 2) <= b
                    /\ b <= ChunkEnd(chunks, "RAW", 2)

----------------------------------------------------------------------------
(* Insertion. *)

\* TRUE iff InsertAt at pos feeds a freshly created chunk first: the split
\* point is the beginning or the chunk left of it is not appendable.
FeedsFreshChunk(cs, t, pos) ==
    \A m \in MaybeSplitChunkAt(cs, pos) :
        ~m.fault => (m.it = 1 \/ ~IsAppendable(m.cs[m.it - 1], t))

\* C5 as claimed: every InsertAt of a non-empty string that returns leaves
\* the default-view length strictly greater.
C5_Original ==
    \A pos \in Positions, input \in Inputs \ {<<>>} :
        \A r \in InsertAtResult(chunks, input_t12r, pos, input) :
            ~r.fault => GetLengthOf(r.cs, kNullT12r) > GetLength

\* C5 amended: an InsertAt of a non-empty string that returns leaves the
\* default-view length strictly greater when the input is fed to freshly
\* created chunks; fed to a chunk with pending text the buffer stays
\* non-empty but its length need not grow.
C5_InsertionIncrease ==
    \A pos \in Positions, input \in Inputs \ {<<>>} :
        \A r \in InsertAtResult(chunks, input_t12r, pos, input) :
            ~r.fault =>
                /\ r.cs # <<>>
                /\ GetLengthOf(r.cs, "RAW") = GetLengthOf(chunks, "RAW") + Len(input)
                /\ (FeedsFreshChunk(chunks, input_t12r, pos)
                      => GetLengthOf(r.cs, kNullT12r) > GetLength)

\* C5 witness: a buffer ending in a pending chunk to which InsertAt appends
\* one keystroke, the rule table re-matches both and the length stays.
C5_Witness ==
    /\ chunks # <<>>
    /\ IsAppendable(chunks[Len(chunks)], input_t12r)
    /\ \E input \in Inputs \ {<<>>} :
         \E r \in InsertAtResult(chunks, input_t12r, GetLength, input) :
            /\ ~r.fault
            /\ Len(r.cs) = Len(chunks)
            /\ r.cs[Len(r.cs)].pending = <<>>
            /\ GetLengthOf(r.cs, kNullT12r) = GetLength
    /\ \E input \in Inputs \ {<<>>} :
         \E r \in InsertAtResult(chunks, input_t12r, 0, input) :
            GetLengthOf(r.cs, kNullT12r) > GetLength

\* C6: InsertAt and InsertKeyAndPreeditAt with non-empty input return the
\* default-view position after the inserted text: what lies right of the
\* returned position is as long as what lay right of pos before.
C6_ReturnedPosition ==
    /\ \A pos \in Positions, input \in Inputs \ {<<>>} :
         \A r \in InsertAtResult(chunks, input_t12r, pos, input) :
            ~r.fault =>
                GetLengthOf(r.cs, kNullT12r) - r.ret = GetLength - Min(pos, GetLength)
    /\ \A pos \in Positions, kp \in KeyPreeditInputs :
         \A r \in InsertKeyAndPreeditAtResult(chunks, input_t12r, pos, kp[1], kp[2]) :
            ~r.fault /\ (kp[1] # <<>> \/ kp[2] # <<>>) =>
                GetLengthOf(r.cs, kNullT12r) - r.ret = GetLength - Min(pos, GetLength)

\* C6 witness: an insertion strictly inside the text that makes it longer
\* and returns a position strictly inside the new text.
C6_Witness ==
    \E pos \in 1..(GetLength - 1), input \in Inputs \ {<<>>} :
        \E r \in InsertAtResult(chunks, input_t12r, pos, input) :
            /\ ~r.fault
            /\ r.ret > pos
            /\ r.ret < GetLengthOf(r.cs, kNullT12r)

\* C7: with empty input InsertAt (and InsertKeyAndPreeditAt with both
\* strings empty) returns pos and leaves the chunks as they are.
C7_EmptyInputNoOp ==
    \A pos \in Positions :
        /\ InsertAtResult(chunks, input_t12r, pos, <<>>)
             = {[cs |-> chunks, ret |-> pos, fault |-> FALSE]}
        /\ InsertKeyAndPreeditAtResult(chunks, input_t12r, pos, <<>>, <<>>)
             = {[cs |-> chunks, ret |-> pos, fault |-> FALSE]}

\* C7 witness: a position strictly inside a chunk, where an insertion of
\* non-empty text splits the chunk and the empty one does not.
C7_Witness ==
    \E pos \in Positions :
        /\ \E m \in MaybeSplitChunkAt(chunks, pos) : Len(m.cs) = Len(chunks) + 1
        /\ \A r \in InsertAtResult(chunks, input_t12r, pos, <<>>) : r.cs = chunks

----------------------------------------------------------------------------
(* Deletion. *)

\* C8 as claimed: DeleteAt at a position left of the end removes exactly
\* the unit that starts there and returns the position.
C8_Original ==
    \A position \in 0..(GetLength - 1) :
        \A r \in DeleteAtResult(chunks, position) :
            /\ ~r.fault
            /\ r.ret = position
            /\ GetLengthOf(r.cs, kNullT12r) = GetLength - 1
            /\ Prefix(GetStringOf(r.cs, kNullT12r), position)
                 = Prefix(GetString, position)

\* C9: DeleteAt at the end of the buffer changes nothing and returns the
\* length, on every buffer, the empty one included.
C9_DeleteAtEndNoOp ==
    DeleteAtResult(chunks, GetLength)
        = {[cs |-> chunks, ret |-> GetLength, fault |-> FALSE]}

\* C9 witness: a buffer of several chunks on which DeleteAt at the end is
\* a no-op while DeleteAt one unit before the end removes text.
C9_Witness ==
    /\ Len(chunks) >= 2
    /\ \A r \in DeleteAtResult(chunks, GetLength) : r.cs = chunks
    /\ \E r \in DeleteAtResult(chunks, GetLength - 1) : r.cs # chunks

\* C10 as claimed: a position beyond the length is clamped: InsertAt
\* appends at the end (the chunks before the last stay in place, the last
\* is kept or extended, the cursor comes back at the end), DeleteAt changes
\* nothing and returns the length, and neither fails, on every buffer.
C10_Original ==
    \A pos \in (GetLength + 1)..(GetLength + 2) :
        /\ \A input \in Inputs \ {<<>>} :
             \A r \in InsertAtResult(chunks, input_t12r, pos, input) :
                /\ ~r.fault
                /\ r.ret = GetLengthOf(r.cs, kNullT12r)
                /\ Len(r.cs) >= Len(chunks)
                /\ \A j \in 1..(Len(chunks) - 1) : r.cs[j] = chunks[j]
                /\ chunks # <<>> =>
                     IsPrefix(chunks[Len(chunks)].raw, r.cs[Len(chunks)].raw)
        /\ DeleteAtResult(chunks, pos)
              = {[cs |-> chunks, ret |-> GetLength, fault |-> FALSE]}

----------------------------------------------------------------------------
(* Chunk hygiene. *)

NoEmptyChunk(cs) == \A i \in 1..Len(cs) : ~ChunkIsEmpty(cs[i])

\* C11: no chunk of the buffer is empty (without raw, converted and pending
\* text) after any public operation has returned: neither in the buffer as
\* it stands nor in what InsertAt, InsertKeyAndPreeditAt, DeleteAt,
\* SetTransliterator and Erase leave when they return from it.
C11_NoEmptyChunk ==
    /\ NoEmptyChunk(chunks)
    /\ \A pos \in Positions :
         /\ \A input \in Inputs :
              \A r \in InsertAtResult(chunks, input_t12r, pos, input) :
                 NoEmptyChunk(r.cs)
         /\ \A kp \in KeyPreeditInputs :
              \A r \in InsertKeyAndPreeditAtResult(chunks, input_t12r, pos,
                                                   kp[1], kp[2]) :
                 NoEmptyChunk(r.cs)
         /\ \A r \in DeleteAtResult(chunks, pos) : NoEmptyChunk(r.cs)
         /\ \A pt \in Positions, t \in SetT12r :
              \A r \in SetTransliteratorResult(chunks, pos, pt, t) :
                 NoEmptyChunk(r.cs)

\* C11 witness: a buffer of several chunks from which DeleteAt takes a
\* whole one-unit chunk away, and another it leaves shorter but in place.
C11_Witness ==
    /\ Len(chunks) >= 2
    /\ \E position \in Positions :
         \E r \in DeleteAtResult(chunks, position) :
            ~r.fault /\ Len(r.cs) = Len(chunks) - 1
    /\ \E position \in Positions :
         \E r \in DeleteAtResult(chunks, position) :
            ~r.fault /\ Len(r.cs) = Len(chunks) /\ r.cs # chunks

----------------------------------------------------------------------------
(* Transliterator assignment. *)

\* TRUE iff the span of chunk c in the default view has a point in common
\* with the closed range [position_from, position_to].
SpanIntersects(cs, c, position_from, position_to) ==
    /\ ChunkStart(cs, kNullT12r, c) <= position_to
    /\ ChunkEnd(cs, kNullT12r, c) >= position_from

\* C12 as claimed: on a buffer with chunks, SetTransliterator with
\* position_from <= position_to returns and leaves the transliterator t on
\* every chunk whose default-view span intersects the closed range, the
\* chunk that ends at position_from and the chunk that starts at
\* position_to included.
C12_Original ==
    chunks # <<>> =>
        \A pf \in Positions, pt \in Positions, t \in AllT12r :
            pf <= pt =>
                \A r \in SetTransliteratorResult(chunks, pf, pt, t) :
                    /\ ~r.fault
                    /\ \A c \in 1..Len(chunks) :
                          SpanIntersects(chunks, c, pf, pt) => r.cs[c].t12r = t

\* C13: SetTransliterator with position_from > position_to returns without
\* a fault and leaves the chunks as they are, on every buffer, the empty
\* one included; the step it makes changes neither the chunks nor the
\* input transliterator.
C13_ReversedRangeNoOp ==
    /\ [](\A pf \in Positions, pt \in Positions, t \in AllT12r :
            pf > pt => SetTransliteratorResult(chunks, pf, pt, t)
                         = {[cs |-> chunks, fault |-> FALSE]})
    /\ [][\A pf \in Positions, pt \in Positions, t \in SetT12r :
            pf > pt /\ SetTransliterator(pf, pt, t) => UNCHANGED vars]_vars

\* C13 witness: a buffer of several chunks and a transliterator such that
\* the range taken in order changes a chunk and the reversed range does not.
C13_Witness ==
    /\ Len(chunks) >= 2
    /\ \E pf \in Positions, pt \in Positions, t \in SetT12r :
          /\ pf > pt
          /\ \E r \in SetTransliteratorResult(chunks, pt, pf, t) : r.cs # chunks
          /\ \A r \in SetTransliteratorResult(chunks, pf, pt, t) :
                r.cs = chunks /\ ~r.fault

\* C14 as claimed: on a buffer with chunks SetDisplayMode returns, leaves
\* the transliterator t on every chunk, makes t the input transliterator,
\* and returns the default-view length of the buffer as it then is.
C14_Original ==
    chunks # <<>> =>
        \A t \in AllT12r :
            \A r \in SetDisplayModeResult(chunks, input_t12r, 0, t) :
                /\ ~r.fault
                /\ \A c \in 1..Len(r.cs) : r.cs[c].t12r = t
                /\ r.input = t
                /\ r.ret = GetLengthOf(r.cs, kNullT12r)

\* TRUE iff MaybeSplitChunkAt splits a chunk of cs at pos: pos lies strictly
\* inside the chunk that Position Lookup selects.
SplitsAt(cs, pos) ==
    /\ cs # <<>>
    /\ pos > 0
    /\ LET at == GetChunkAt(cs, pos, kNullT12r)
       IN  at.inner # ChunkLength(cs[at.it], kNullT12r)

\* TRUE iff the chunks 1..c of old are found with their transliterators at
\* the left end of new, and the chunks from of old on at the right end.
KeepsOverrides(old, new, c, from) ==
    /\ Len(new) >= c
    /\ \A j \in 1..c : new[j].t12r = old[j].t12r
    /\ \A j \in from..Len(old) :
          /\ Len(new) - Len(old) + j >= 1
          /\ new[Len(new) - Len(old) + j].t12r = old[j].t12r

\* C15: when pos lies strictly inside chunk c, the split leaves two chunks
\* with the transliterator of c and GetTransliterator answers the same at
\* every position as before; after InsertAt and InsertKeyAndPreeditAt the
\* left half and the chunks before it, and the right half and the chunks
\* after it, carry the transliterators they had, and GetTransliterator
\* answers the same for the text left of pos and, shifted by the growth,
\* right of pos; DeleteAt keeps the transliterators of what it keeps.
C15_SplitKeepsOverride ==
    \A pos \in Positions :
        SplitsAt(chunks, pos) =>
            LET c == GetChunkAt(chunks, pos, kNullT12r).it
            IN  /\ \A m \in MaybeSplitChunkAt(chunks, pos) :
                     /\ ~m.fault /\ m.it = c + 1
                     /\ Len(m.cs) = Len(chunks) + 1
                     /\ KeepsOverrides(chunks, m.cs, c, c)
                     /\ \A p \in 0..(GetLength + 1) :
                          GetTransliteratorResult(m.cs, p)
                             = GetTransliteratorResult(chunks, p)
                /\ \A input \in Inputs \ {<<>>} :
                     \A r \in InsertAtResult(chunks, input_t12r, pos, input) :
                        /\ ~r.fault
                        /\ Len(r.cs) > Len(chunks)
                        /\ KeepsOverrides(chunks, r.cs, c, c)
                        /\ \A p \in 0..pos :
                             GetTransliteratorResult(r.cs, p)
                                = GetTransliteratorResult(chunks, p)
                        /\ \A p \in (pos + 1)..GetLength :
                             GetTransliteratorResult(r.cs, p + r.ret - pos)
                                = GetTransliteratorResult(chunks, p)
                /\ \A kp \in KeyPreeditInputs \ {<< <<>>, <<>> >>} :
                     \A r \in InsertKeyAndPreeditAtResult(chunks, input_t12r, pos,
                                                          kp[1], kp[2]) :
                        /\ ~r.fault
                        /\ Len(r.cs) > Len(chunks)
                        /\ KeepsOverrides(chunks, r.cs, c, c)
                        /\ \A p \in 0..pos :
                             GetTransliteratorResult(r.cs, p)
                                = GetTransliteratorResult(chunks, p)
                        /\ \A p \in (pos + 1)..GetLength :
                             GetTransliteratorResult(r.cs, p + r.ret - pos)
                                = GetTransliteratorResult(chunks, p)
                /\ \A r \in DeleteAtResult(chunks, pos) :
                     /\ ~r.fault
                     /\ \/ Len(r.cs) = Len(chunks) + 1
                           /\ KeepsOverrides(chunks, r.cs, c, c)
                        \/ Len(r.cs) = Len(chunks)
                           /\ KeepsOverrides(chunks, r.cs, c, c + 1)

\* C15 witness: the input transliterator differs from the transliterator of
\* a chunk that a position splits, an insertion there leaves both halves
\* with the chunk's transliterator and a new chunk between them with the
\* input transliterator.
C15_Witness ==
    \E pos \in Positions :
        /\ SplitsAt(chunks, pos)
        /\ LET c == GetChunkAt(chunks, pos, kNullT12r).it
           IN  /\ chunks[c].t12r # input_t12r
               /\ \E input \in Inputs \ {<<>>} :
                    \E r \in InsertAtResult(chunks, input_t12r, pos, input) :
                       /\ Len(r.cs) = Len(chunks) + 2
                       /\ r.cs[c].t12r = chunks[c].t12r
                       /\ r.cs[c + 1].t12r = input_t12r
                       /\ r.cs[c + 2].t12r = chunks[c].t12r

\* C16: on a buffer with chunks GetTransliterator returns the transliterator
\* of the chunk that Position Lookup selects in the default view: the
\* leftmost chunk whose end reaches the position (so the left chunk on a
\* boundary between two chunks), the last chunk beyond the length.
C16_PolicyOfLookupChunk ==
    chunks # <<>> =>
        /\ \A p \in 0..GetLength :
              GetTransliteratorResult(chunks, p)
                 = {[ret |-> chunks[LookupChunk(chunks, kNullT12r, p)].t12r,
                     fault |-> FALSE]}
        /\ \A p \in (GetLength + 1)..(GetLength + 2) :
              GetTransliteratorResult(chunks, p)
                 = {[ret |-> chunks[Len(chunks)].t12r, fault |-> FALSE]}
        /\ \A c \in 1..(Len(chunks) - 1) :
              ChunkLength(chunks[c], kNullT12r) > 0 =>
                 GetTransliteratorResult(chunks, ChunkEnd(chunks, kNullT12r, c))
                    = {[ret |-> chunks[c].t12r, fault |-> FALSE]}

\* C16 witness: two neighbouring chunks with different transliterators, the
\* position on the boundary between them answers with the left one's.
C16_Witness ==
    \E c \in 1..(Len(chunks) - 1) :
        /\ chunks[c].t12r # chunks[c + 1].t12r
        /\ ChunkLength(chunks[c], kNullT12r) > 0
        /\ ChunkLength(chunks[c + 1], kNullT12r) > 0
        /\ GetTransliteratorResult(chunks, ChunkEnd(chunks, kNullT12r, c))
              = {[ret |-> chunks[c].t12r, fault |-> FALSE]}

----------------------------------------------------------------------------
(* Sequential input. *)

\* C17: input inserted at the end goes into the last chunk when that chunk
\* is appendable (the chunks before it stay, the last becomes what AddInput
\* makes of it).  From the empty buffer "t", "t", "o" inserted one by one at
\* the end leave one chunk with raw "tt", all of it pending, after the
\* second insertion, and after the third the very buffer that one insertion
\* of "tto" leaves: one chunk converted to XTU TO, two units in the
\* converted view, which is the default view when the input transliterator
\* is the null one (as after construction).
C17_SequentialInsertion ==
    /\ (chunks # <<>> /\ IsAppendable(chunks[Len(chunks)], input_t12r)) =>
          \A input \in Inputs \ {<<>>} :
              \A r \in InsertAtResult(chunks, input_t12r, GetLength, input) :
                  /\ ~r.fault
                  /\ Len(r.cs) >= Len(chunks)
                  /\ SubSeq(r.cs, 1, Len(chunks) - 1)
                        = SubSeq(chunks, 1, Len(chunks) - 1)
                  /\ r.cs[Len(chunks)] = AddInput(chunks[Len(chunks)], input).chunk
    /\ chunks = <<>> =>
          \A r1 \in InsertAtResult(chunks, input_t12r, 0, <<"t">>) :
          \A r2 \in InsertAtResult(r1.cs, input_t12r,
                                   GetLengthOf(r1.cs, kNullT12r), <<"t">>) :
          \A r3 \in InsertAtResult(r2.cs, input_t12r,
                                   GetLengthOf(r2.cs, kNullT12r), <<"o">>) :
              /\ ~r1.fault /\ ~r2.fault /\ ~r3.fault
              /\ r2.cs = <<[raw |-> <<"t", "t">>, conversion |-> <<>>,
                            pending |-> <<"t", "t">>, t12r |-> input_t12r]>>
              /\ r3.cs = <<[raw |-> <<"t", "t", "o">>,
                            conversion |-> <<"XTU", "TO">>,
                            pending |-> <<>>, t12r |-> input_t12r]>>
              /\ GetStringOf(r3.cs, "CONV") = <<"XTU", "TO">>
              /\ GetLengthOf(r3.cs, "CONV") = 2
              /\ input_t12r = kNullT12r =>
                    /\ GetStringOf(r3.cs, kNullT12r) = <<"XTU", "TO">>
                    /\ GetLengthOf(r3.cs, kNullT12r) = 2
                    /\ r3.ret = 2
              /\ InsertAtResult(chunks, input_t12r, 0, <<"t", "t", "o">>)
                    = {[cs |-> r3.cs, ret |-> r3.ret, fault |-> FALSE]}

\* C17 witness: the buffer after "t" and "t": one chunk, raw "tt", pending,
\* to which the insertion of "o" at the end gives the converted text.
C17_Witness ==
    /\ chunks = <<[raw |-> <<"t", "t">>, conversion |-> <<>>,
                   pending |-> <<"t", "t">>, t12r |-> kNullT12r]>>
    /\ input_t12r = kNullT12r
    /\ \E r \in InsertAtResult(chunks, input_t12r, GetLength, <<"o">>) :
          /\ Len(r.cs) = 1
          /\ GetStringOf(r.cs, kNullT12r) = <<"XTU", "TO">>
          /\ r.ret = 2

----------------------------------------------------------------------------
(* Rendering. *)

\* C18: for every position in 0..length of the default view GetPreedit
\* cuts the default-view render in three: left has position units, focused
\* has one unit (none when the position is the length), and left, focused
\* and right put together are the whole render, whose length is GetLength.
C18_PreeditPartition ==
    \A p \in 0..GetLength :
        LET g == GetPreedit(chunks, p)
        IN  /\ Len(GetString) = GetLength
            /\ Len(g.left) = p
            /\ Len(g.focused) = (IF p = GetLength THEN 0 ELSE 1)
            /\ g.left \o g.focused \o g.right = GetString
            /\ p < GetLength => g.focused = <<GetString[p + 1]>>

\* C18 witness: two chunks rendering "a" and KA; position 1 has "a" to the
\* left, KA in focus and nothing to the right, position 2 has no focus.
C18_Witness ==
    /\ Len(chunks) = 2
    /\ GetString = <<"a", "KA">>
    /\ GetPreedit(chunks, 1)
          = [left |-> <<"a">>, focused |-> <<"KA">>, right |-> <<>>]
    /\ GetPreedit(chunks, 2)
          = [left |-> <<"a", "KA">>, focused |-> <<>>, right |-> <<>>]
    /\ GetPreedit(chunks, 0)
          = [left |-> <<>>, focused |-> <<"a">>, right |-> <<"KA">>]

\* C19: in GetStringWithModes the trim mode reaches the last chunk only:
\* for every transliterator and every trim mode the render starts with the
\* as-is renders of all chunks but the last, and what follows is the last
\* chunk rendered as the trim mode has it; the as-is render of the buffer
\* is the concatenation of the as-is renders of all chunks.
C19_TrimOnLastChunkOnly ==
    chunks # <<>> =>
        \A t \in AllT12r, trim_mode \in TrimModes, composition \in Compositions :
            LET s     == GetStringWithModes(chunks, t, trim_mode, composition)
                front == GetStringOf(SubSeq(chunks, 1, Len(chunks) - 1), t)
                last  == chunks[Len(chunks)]
            IN  /\ IsPrefix(front, s)
                /\ Suffix(s, Len(front))
                      = (CASE trim_mode = "TRIM" -> ChunkTrimedString(last, t)
                           [] trim_mode = "ASIS" -> ChunkString(last, t)
                           [] trim_mode = "FIX"  -> ChunkFixedString(last, t))
                /\ trim_mode = "ASIS" => s = GetStringOf(chunks, t)

\* C19 witness: a chunk with pending text before the last chunk, and a last
\* chunk with pending text: the trimmed render keeps the pending text of
\* the first and drops that of the last.
C19_Witness ==
    /\ Len(chunks) >= 2
    /\ chunks[1].pending # <<>>
    /\ chunks[Len(chunks)].pending # <<>>
    /\ GetStringWithModes(chunks, kNullT12r, "TRIM", <<>>)
          # GetStringWithModes(chunks, kNullT12r, "ASIS", <<>>)
    /\ IsPrefix(ChunkString(chunks[1], kNullT12r),
                GetStringWithModes(chunks, kNullT12r, "TRIM", <<>>))

\* C20: on a buffer without chunks GetStringWithModes leaves the empty
\* string in the caller's string for every transliterator and trim mode,
\* whatever the string held before, and so does GetString.
C20_EmptyBufferRender ==
    chunks = <<>> =>
        \A composition \in Compositions :
            /\ \A t \in AllT12r, trim_mode \in TrimModes :
                  GetStringWithModes(chunks, t, trim_mode, composition) = <<>>
            /\ GetStringInto(chunks, composition) = <<>>

\* C20 witness: a buffer emptied again after the input transliterator was
\* set, rendered into a string that holds text.
C20_Witness ==
    /\ chunks = <<>>
    /\ ~crashed
    /\ input_t12r = "RAW"
    /\ GetStringWithModes(chunks, "RAW", "FIX", <<"x">>) = <<>>

\* C21: GetStringWithTransliterator leaves in the caller's string what
\* GetStringWithModes leaves with the trim mode FIX, for every
\* transliterator, the null one included, and on every buffer: nothing on
\* the empty one, else the as-is renders of the chunks before the last
\* followed by the fixed render of the last.
C21_RenderDefaultIsFix ==
    \A t \in AllT12r, output \in Compositions :
        /\ GetStringWithTransliterator(chunks, t, output)
              = GetStringWithModes(chunks, t, "FIX", output)
        /\ GetStringWithTransliterator(chunks, t, output)
              = IF chunks = <<>> THEN <<>>
                ELSE GetStringOf(SubSeq(chunks, 1, Len(chunks) - 1), t)
                     \o ChunkFixedString(chunks[Len(chunks)], t)

\* C21 witness: a buffer of two chunks whose last chunk has pending text,
\* which the fixed render shows and the trimmed render drops.
C21_Witness ==
    /\ Len(chunks) >= 2
    /\ chunks[Len(chunks)].pending # <<>>
    /\ GetStringWithTransliterator(chunks, kNullT12r, <<"x">>)
          = GetStringWithModes(chunks, kNullT12r, "FIX", <<>>)
    /\ GetStringWithTransliterator(chunks, kNullT12r, <<"x">>)
          # GetStringWithModes(chunks, kNullT12r, "TRIM", <<>>)

\* C22: every step of Erase leaves no chunk: the list is empty, the length
\* is 0 under every transliterator and every render is the empty string.
C22_EraseEmpties ==
    [][Erase =>
         /\ chunks' = <<>>
         /\ \A t \in AllT12r :
              /\ GetLengthOf(chunks', t) = 0
              /\ GetStringOf(chunks', t) = <<>>
              /\ \A trim_mode \in TrimModes, composition \in Compositions :
                   GetStringWithModes(chunks', t, trim_mode, composition) = <<>>
         /\ GetStringInto(chunks', <<"x">>) = <<>>]_vars

\* C22 witness: a buffer of several chunks, with text in every view, on
\* which Erase can act.
C22_Witness ==
    /\ ~crashed
    /\ Len(chunks) >= 2
    /\ \A t \in AllT12r : GetLengthOf(chunks, t) >= 2
    /\ ENABLED Erase

----------------------------------------------------------------------------
(* Lengths and positions. *)

RECURSIVE SumOfLengths(_, _)
\* The sum of the lengths under t of the chunks of cs, first chunk first.
SumOfLengths(cs, t) ==
    IF cs = <<>> THEN 0 ELSE ChunkLength(Head(cs), t) + SumOfLengths(Tail(cs), t)

\* C23: under every transliterator the length of the buffer is the sum of
\* the lengths of its chunks and is not negative, the position of every
\* iterator is the sum over the chunks before it, and GetLength is the sum
\* under the null transliterator.
C23_LengthAdditivity ==
    /\ \A t \in AllT12r :
          /\ GetLengthOf(chunks, t) = SumOfLengths(chunks, t)
          /\ GetLengthOf(chunks, t) >= 0
          /\ \A it \in 1..EndIt(chunks) :
                GetPosition(chunks, t, it) = SumOfLengths(SubSeq(chunks, 1, it - 1), t)
    /\ GetLength = SumOfLengths(chunks, kNullT12r)

\* C23 witness: two chunks with different transliterators, the first longer
\* in the raw view than in the converted view, so that the three views add
\* up to different totals.
C23_Witness ==
    /\ Len(chunks) = 2
    /\ chunks[1].t12r # chunks[2].t12r
    /\ ChunkLength(chunks[1], "RAW") > ChunkLength(chunks[1], "CONV")
    /\ GetLengthOf(chunks, "RAW") = 3
    /\ GetLengthOf(chunks, "CONV") = 2
    /\ GetLength = SumOfLengths(chunks, kNullT12r)

----------------------------------------------------------------------------
(* The rule table. *)

\* C24: no step of the buffer changes the contents of the table it refers
\* to: the table is at every moment the table the buffer was given, so a
\* second buffer referring to it finds it as if it were its own.
C24_TableNeverMutated ==
    /\ [](table = kTable)
    /\ [][table' = table]_vars

\* C24 witness: a buffer that has looked rules up: one chunk holds the
\* result of a rule, another holds pending text that is the beginning of a
\* key, and the table is what it was.
C24_Witness ==
    /\ table = kTable
    /\ \E c \in 1..Len(chunks) :
          /\ chunks[c].raw \in DOMAIN table
          /\ chunks[c].conversion = table[chunks[c].raw]
    /\ \E c \in 1..Len(chunks) :
          /\ chunks[c].pending # <<>>
          /\ \E key \in DOMAIN table : IsPrefix(chunks[c].pending, key)

\* C25: on a buffer with chunks GetChunkAt returns, for every transliterator
\* and every position, a chunk of the list and an inner position between 0
\* and the length of that chunk, the start of the chunk plus the inner
\* position being the position or, beyond the length, the length; up to the
\* length the chunk is the leftmost whose end reaches the position, beyond
\* it the last chunk; the end of a chunk that has text belongs to that
\* chunk, at its full length, not to the chunk after it.
C25_PositionLookup ==
    chunks # <<>> =>
        \A t \in AllT12r :
            \A p \in 0..(GetLengthOf(chunks, t) + 2) :
                LET at == GetChunkAt(chunks, p, t)
                    L  == GetLengthOf(chunks, t)
                IN  /\ at.it \in 1..Len(chunks)
                    /\ 0 <= at.inner
                    /\ at.inner <= ChunkLength(chunks[at.it], t)
                    /\ ChunkStart(chunks, t, at.it) + at.inner = Min(p, L)
                    /\ p <= L => at.it = LookupChunk(chunks, t, p)
                    /\ p > L => at.it = Len(chunks)
                    /\ \A c \in 1..Len(chunks) :
                          (ChunkLength(chunks[c], t) > 0 /\ p = ChunkEnd(chunks, t, c))
                             => at = [it |-> c, inner |-> ChunkLength(chunks[c], t)]

\* C25 witness: the end of a first chunk of raw length 2 and converted
\* length 1, followed by a chunk with text: the raw position 2 and the
\* converted position 1 are both attributed to the first chunk.
C25_Witness ==
    /\ Len(chunks) >= 2
    /\ ChunkLength(chunks[2], "RAW") > 0
    /\ ChunkLength(chunks[2], "CONV") > 0
    /\ GetChunkAt(chunks, 2, "RAW") = [it |-> 1, inner |-> 2]
    /\ GetChunkAt(chunks, 1, "CONV") = [it |-> 1, inner |-> 1]
    /\ GetChunkAt(chunks, 3, "RAW") = [it |-> 2, inner |-> 1]

----------------------------------------------------------------------------
(* The chunks an insertion feeds. *)

\* TRUE iff new is old with n chunks put in before iterator it, each with
\* the transliterator t, the chunks from it on unchanged behind them and
\* the first keep chunks of old unchanged in front.
NewChunksAt(old, new, it, n, keep, t) ==
    /\ Len(new) = Len(old) + n
    /\ SubSeq(new, 1, keep) = SubSeq(old, 1, keep)
    /\ \A j \in it..(it + n - 1) : new[j].t12r = t
    /\ SubSeq(new, it + n, Len(new)) = SubSeq(old, it, Len(old))

\* TRUE iff the chunk left of iterator it exists and is appendable under t.
LeftIsAppendable(cs, it, t) == it > 1 /\ IsAppendable(cs[it - 1], t)

\* C26: with the list and iterator that MaybeSplitChunkAt leaves, InsertAt
\* and InsertKeyAndPreeditAt feed the input first to the chunk left of the
\* iterator when there is one and it is appendable under the input
\* transliterator (it keeps its own transliterator), else to a new chunk put
\* in at the iterator; every new chunk has the input transliterator and
\* every other chunk is what it was.
C26_InsertionChunkChoice ==
    \A pos \in Positions :
        \A m \in MaybeSplitChunkAt(chunks, pos) :
            ~m.fault =>
                LET fresh == SetChunkT12r(EmptyChunk, input_t12r)
                IN  /\ \A input \in Inputs \ {<<>>} :
                         \A r \in InsertAtResult(chunks, input_t12r, pos, input) :
                            ~r.fault =>
                                LET n == Len(r.cs) - Len(m.cs)
                                IN  IF LeftIsAppendable(m.cs, m.it, input_t12r)
                                    THEN /\ n >= 0
                                         /\ NewChunksAt(m.cs, r.cs, m.it, n,
                                                        m.it - 2, input_t12r)
                                         /\ r.cs[m.it - 1]
                                               = AddInput(m.cs[m.it - 1], input).chunk
                                         /\ r.cs[m.it - 1].t12r = m.cs[m.it - 1].t12r
                                    ELSE /\ n >= 1
                                         /\ NewChunksAt(m.cs, r.cs, m.it, n,
                                                        m.it - 1, input_t12r)
                                         /\ r.cs[m.it] = AddInput(fresh, input).chunk
                    /\ \A kp \in KeyPreeditInputs \ {<< <<>>, <<>> >>} :
                         \A r \in InsertKeyAndPreeditAtResult(chunks, input_t12r, pos,
                                                              kp[1], kp[2]) :
                            ~r.fault =>
                                LET n == Len(r.cs) - Len(m.cs)
                                IN  IF LeftIsAppendable(m.cs, m.it, input_t12r)
                                    THEN /\ n >= 0
                                         /\ NewChunksAt(m.cs, r.cs, m.it, n,
                                                        m.it - 2, input_t12r)
                                         /\ r.cs[m.it - 1]
                                               = AddInputAndConvertedChar(
                                                     m.cs[m.it - 1], kp[1], kp[2]).chunk
                                         /\ r.cs[m.it - 1].t12r = m.cs[m.it - 1].t12r
                                    ELSE /\ n >= 1
                                         /\ NewChunksAt(m.cs, r.cs, m.it, n,
                                                        m.it - 1, input_t12r)
                                         /\ r.cs[m.it]
                                               = AddInputAndConvertedChar(
                                                     fresh, kp[1], kp[2]).chunk

\* C26 witness: a buffer with a chunk whose transliterator is not the input
\* transliterator, a position whose left chunk is appendable and takes the
\* input without a new chunk, and a position where the input goes to a new
\* chunk with the input transliterator.
C26_Witness ==
    /\ \E c \in 1..Len(chunks) : chunks[c].t12r # input_t12r
    /\ \E pos \in Positions, input \in Inputs \ {<<>>} :
         \E m \in MaybeSplitChunkAt(chunks, pos) :
         \E r \in InsertAtResult(chunks, input_t12r, pos, input) :
            /\ ~m.fault /\ ~r.fault
            /\ LeftIsAppendable(m.cs, m.it, input_t12r)
            /\ Len(r.cs) = Len(m.cs)
            /\ r.cs # m.cs
    /\ \E pos \in Positions, input \in Inputs \ {<<>>} :
         \E m \in MaybeSplitChunkAt(chunks, pos) :
         \E r \in InsertAtResult(chunks, input_t12r, pos, input) :
            /\ ~m.fault /\ ~r.fault
            /\ m.it > 1
            /\ ~LeftIsAppendable(m.cs, m.it, input_t12r)
            /\ Len(r.cs) = Len(m.cs) + 1
            /\ r.cs[m.it].t12r = input_t12r
            /\ r.cs[m.it - 1].t12r # input_t12r

\* C27: the loops of InsertAt and InsertKeyAndPreeditAt end with the input
\* used up and in order: the keystrokes of the chunks are the keystrokes
\* left of the iterator, the whole input, and the keystrokes right of the
\* iterator (for InsertKeyAndPreeditAt the converted text likewise, with the
\* preedit); the loop makes no more new chunks than the input has units, at
\* least one where the left chunk takes nothing, and the chunks from the
\* iterator on stay behind the new ones.
C27_InsertionConsumesInput ==
    \A pos \in Positions :
        \A m \in MaybeSplitChunkAt(chunks, pos) :
            ~m.fault =>
                LET left  == SubSeq(m.cs, 1, m.it - 1)
                    right == SubSeq(m.cs, m.it, Len(m.cs))
                IN  /\ \A input \in Inputs \ {<<>>} :
                         \A r \in InsertAtResult(chunks, input_t12r, pos, input) :
                            ~r.fault =>
                            /\ GetStringOf(r.cs, "RAW")
                                  = GetStringOf(left, "RAW") \o input
                                    \o GetStringOf(right, "RAW")
                            /\ Len(r.cs) - Len(m.cs) <= Len(input)
                            /\ Len(r.cs) - Len(m.cs) >= 0
                            /\ SubSeq(r.cs, Len(r.cs) - Len(right) + 1, Len(r.cs)) = right
                            /\ r.ret = GetLengthOf(r.cs, kNullT12r)
                                          - GetLengthOf(right, kNullT12r)
                    /\ \A kp \in KeyPreeditInputs \ {<< <<>>, <<>> >>} :
                         \A r \in InsertKeyAndPreeditAtResult(chunks, input_t12r, pos,
                                                              kp[1], kp[2]) :
                            ~r.fault =>
                            /\ GetStringOf(r.cs, "RAW")
                                  = GetStringOf(left, "RAW") \o kp[1]
                                    \o GetStringOf(right, "RAW")
                            /\ GetStringOf(r.cs, "CONV")
                                  = GetStringOf(left, "CONV") \o kp[2]
                                    \o GetStringOf(right, "CONV")
                            /\ Len(r.cs) - Len(m.cs) = 1
                            /\ SubSeq(r.cs, Len(r.cs) - Len(right) + 1, Len(r.cs)) = right

\* C27 witness: an insertion between two chunks whose input needs two new
\* chunks, which stand in the order of the input between the old ones.
C27_Witness ==
    \E pos \in Positions, input \in Inputs :
        \E m \in MaybeSplitChunkAt(chunks, pos) :
        \E r \in InsertAtResult(chunks, input_t12r, pos, input) :
            /\ ~m.fault /\ ~r.fault
            /\ 1 < m.it /\ m.it <= Len(m.cs)
            /\ Len(input) = 2
            /\ Len(r.cs) = Len(m.cs) + 2
            /\ r.cs[m.it].raw = <<input[1]>>
            /\ r.cs[m.it + 1].raw = <<input[2]>>
            /\ r.cs[m.it + 2] = m.cs[m.it]

----------------------------------------------------------------------------
(* Split on demand. *)

\* C28: on a buffer with chunks, for a position strictly inside a chunk
\* MaybeSplitChunkAt puts two chunks in its place, the left one with as many
\* default-view units as the inner position and the right one with the
\* rest, leaves every other chunk, the default-view length and the
\* default-view render as they were, and designates the right one, which
\* starts at the position; for any other position (0, the end of a chunk,
\* the length or beyond) the list is unchanged and the iterator designates
\* the chunk that starts at the position, or the end of the list.
C28_SplitOnDemand ==
    chunks # <<>> =>
        \A pos \in Positions :
            LET at == GetChunkAt(chunks, pos, kNullT12r)
                c  == at.it
            IN  \A m \in MaybeSplitChunkAt(chunks, pos) :
                    /\ ~m.fault
                    /\ m.it \in 1..EndIt(m.cs)
                    /\ GetPosition(m.cs, kNullT12r, m.it) = Min(pos, GetLength)
                    /\ IF SplitsAt(chunks, pos)
                       THEN /\ 0 < pos /\ pos < GetLength
                            /\ Len(m.cs) = Len(chunks) + 1
                            /\ m.it = c + 1
                            /\ ChunkLength(m.cs[c], kNullT12r) = at.inner
                            /\ ChunkLength(m.cs[c + 1], kNullT12r)
                                  = ChunkLength(chunks[c], kNullT12r) - at.inner
                            /\ SubSeq(m.cs, 1, c - 1) = SubSeq(chunks, 1, c - 1)
                            /\ SubSeq(m.cs, c + 2, Len(m.cs))
                                  = SubSeq(chunks, c + 1, Len(chunks))
                            /\ GetLengthOf(m.cs, kNullT12r) = GetLength
                            /\ GetStringOf(m.cs, kNullT12r) = GetString
                       ELSE /\ m.cs = chunks
                            /\ (pos > GetLength => m.it = EndIt(m.cs))

\* C28 witness: a chunk of two default-view units behind a chunk of one
\* unit; position 2 splits it into two chunks of one unit each.
C28_Witness ==
    /\ Len(chunks) = 2
    /\ ChunkLength(chunks[1], kNullT12r) = 1
    /\ ChunkLength(chunks[2], kNullT12r) = 2
    /\ SplitsAt(chunks, 2)
    /\ \E m \in MaybeSplitChunkAt(chunks, 2) :
          /\ Len(m.cs) = 3
          /\ m.it = 3
          /\ m.cs[1] = chunks[1]
          /\ ChunkLength(m.cs[2], kNullT12r) = 1
          /\ ChunkLength(m.cs[3], kNullT12r) = 1

----------------------------------------------------------------------------
(* The assertions and the range of ConvertPosition. *)

\* C29: in every state, for every pair of transliterators and every
\* position, also beyond the length, the CHECK and the DCHECK of
\* ConvertPosition hold where they are reached: the inner position that
\* GetChunkAt returns is at most the length of the chunk it returns.
C29_CheckNeverFires ==
    \A tf \in AllT12r, tt \in AllT12r :
        \A p \in 0..(GetLengthOf(chunks, tf) + 2) :
            /\ ConvertPositionChecks(chunks, p, tf, tt)
                  = [check |-> TRUE, dcheck |-> TRUE]
            /\ chunks # <<>> =>
                  LET at == GetChunkAt(chunks, p, tf)
                  IN  at.inner <= ChunkLength(chunks[at.it], tf)

\* C29 witness: a position beyond the raw length of a buffer whose last
\* chunk is longer in the raw view than in the converted view; GetChunkAt
\* brings it back to the length of the last chunk and the CHECK is reached
\* and holds.
C29_Witness ==
    /\ Len(chunks) >= 2
    /\ ChunkLength(chunks[Len(chunks)], "RAW") > ChunkLength(chunks[Len(chunks)], "CONV")
    /\ LET p == GetLengthOf(chunks, "RAW") + 2
       IN  /\ GetChunkAt(chunks, p, "RAW")
                = [it |-> Len(chunks), inner |-> ChunkLength(chunks[Len(chunks)], "RAW")]
           /\ ConvertPositionChecks(chunks, p, "RAW", "CONV").check
           /\ ConvertPosition(chunks, p, "RAW", "CONV") = GetLengthOf(chunks, "CONV")

\* C30 as claimed: in every state, for every pair of transliterators, equal
\* ones included, and every position, also beyond the length, the result
\* of ConvertPosition lies between 0 and the length under the target
\* transliterator.
C30_Original ==
    \A tf \in AllT12r, tt \in AllT12r :
        \A p \in 0..(GetLengthOf(chunks, tf) + 2) :
            /\ 0 <= ConvertPosition(chunks, p, tf, tt)
            /\ ConvertPosition(chunks, p, tf, tt) <= GetLengthOf(chunks, tt)

----------------------------------------------------------------------------
(* Order of the positions ConvertPosition returns. *)

\* C31: in every state and for every pair of transliterators, position 0
\* converts to 0, and of two positions, also beyond the length, the greater
\* never converts to less than the smaller converts to.
C31_ConvertPositionMonotone ==
    \A tf \in AllT12r, tt \in AllT12r :
        /\ ConvertPosition(chunks, 0, tf, tt) = 0
        /\ \A p1 \in 0..(GetLengthOf(chunks, tf) + 2) :
              \A p2 \in p1..(GetLengthOf(chunks, tf) + 2) :
                  ConvertPosition(chunks, p1, tf, tt)
                      <= ConvertPosition(chunks, p2, tf, tt)

\* C31 witness: a buffer whose first chunk has no text in the converted
\* view and two units in the raw view, followed by a chunk with text in
\* both; from the converted view position 0 converts to 0 and position 1
\* past the whole first chunk, and from the raw view positions 1 and 2 both
\* convert to the same position.
C31_Witness ==
    /\ Len(chunks) = 2
    /\ ChunkLength(chunks[1], "CONV") = 0
    /\ ChunkLength(chunks[1], "RAW") = 2
    /\ ChunkLength(chunks[2], "CONV") = 1
    /\ ConvertPosition(chunks, 0, "CONV", "RAW") = 0
    /\ ConvertPosition(chunks, 1, "CONV", "RAW") = 3
    /\ ConvertPosition(chunks, 1, "RAW", "CONV") = ConvertPosition(chunks, 2, "RAW", "CONV")

----------------------------------------------------------------------------
(* What the operations leave alone. *)

\* Index in old of the first chunk at or right of pos: the chunk behind the
\* one that Position Lookup selects, which ends at pos or straddles it.
FirstRightOf(old, pos) ==
    IF old = <<>> \/ pos <= 0 THEN 1 ELSE GetChunkAt(old, pos, kNullT12r).it + 1

\* Number of chunks of old left of the insertion chunk: the chunks before
\* the one that straddles pos or, when the chunk ending at pos is appendable
\* under t, before that chunk; else all chunks that end at or left of pos.
LeftOfInsertionChunk(old, pos, t) ==
    IF old = <<>> \/ pos <= 0 THEN 0
    ELSE LET c == GetChunkAt(old, pos, kNullT12r).it
         IN  IF SplitsAt(old, pos) \/ IsAppendable(old[c], t) THEN c - 1 ELSE c

\* TRUE iff new has the chunks of old left of the insertion chunk at its
\* left end and the chunks of old at or right of pos at its right end,
\* unchanged and in order, and at most extra + 2 chunks between them when a
\* chunk straddles pos, extra + 1 when the chunk left of pos is the
\* insertion chunk, and extra otherwise.
InsertionFrame(old, new, pos, t, extra) ==
    LET first_right == FirstRightOf(old, pos)
        nright      == Len(old) - first_right + 1
        keep        == LeftOfInsertionChunk(old, pos, t)
    IN  /\ Len(new) >= keep + nright
        /\ SubSeq(new, 1, keep) = SubSeq(old, 1, keep)
        /\ SubSeq(new, Len(new) - nright + 1, Len(new))
              = SubSeq(old, first_right, Len(old))
        /\ Len(new) - keep - nright
              <= extra + (IF SplitsAt(old, pos) THEN 2
                          ELSE first_right - 1 - keep)

\* C32: in every state, for every position and every non-empty input, an
\* outcome of InsertAt or InsertKeyAndPreeditAt that is not a fault has
\* every chunk at or right of the position and every chunk left of the
\* insertion chunk unchanged and in the same order; between them stand only
\* the insertion chunk, the new chunks (no more than the input has units)
\* and the halves of the chunk that straddled the position.
C32_InsertionFrame ==
    \A pos \in Positions :
        /\ \A input \in Inputs \ {<<>>} :
              \A r \in InsertAtResult(chunks, input_t12r, pos, input) :
                 ~r.fault =>
                    InsertionFrame(chunks, r.cs, pos, input_t12r, Len(input))
        /\ \A kp \in KeyPreeditInputs \ {<< <<>>, <<>> >>} :
              \A r \in InsertKeyAndPreeditAtResult(chunks, input_t12r, pos,
                                                   kp[1], kp[2]) :
                 ~r.fault =>
                    InsertionFrame(chunks, r.cs, pos, input_t12r, 1)

\* C32 witness: two chunks and an insertion at the boundary between them
\* that the left chunk does not take: the result has the left chunk, one
\* new chunk and the right chunk; and an insertion that the left chunk of
\* some buffer takes, which changes that chunk and adds none.
C32_Witness ==
    /\ Len(chunks) = 2
    /\ LET pos == ChunkLength(chunks[1], kNullT12r)
       IN  /\ pos > 0
           /\ ~SplitsAt(chunks, pos)
           /\ ~IsAppendable(chunks[1], input_t12r)
           /\ \E input \in Inputs \ {<<>>} :
                 \E r \in InsertAtResult(chunks, input_t12r, pos, input) :
                    /\ ~r.fault
                    /\ Len(r.cs) = 3
                    /\ r.cs[1] = chunks[1]
                    /\ r.cs[3] = chunks[2]
                    /\ r.cs[2].raw = input
           /\ \E kp \in KeyPreeditInputs \ {<< <<>>, <<>> >>} :
                 \E r \in InsertKeyAndPreeditAtResult(chunks, input_t12r, pos,
                                                      kp[1], kp[2]) :
                    /\ ~r.fault
                    /\ Len(r.cs) = 3
                    /\ r.cs[1] = chunks[1]
                    /\ r.cs[3] = chunks[2]
                    /\ r.cs[2].raw = kp[1]

\* C33: in every state, for position_from <= position_to <= length and any
\* transliterator, an outcome of SetTransliterator that is not a fault has
\* as many chunks as before, each with the raw, converted and pending text
\* it had and in the same place, each with the transliterator it had or the
\* new one, and with the one it had when its default-view span has no point
\* in [position_from, position_to]; the length under RAW and under CONV is
\* what it was; and a SetTransliterator step leaves the input
\* transliterator and the table as they were.
C33_SetTransliteratorFrame ==
    /\ [](\A pf \in 0..GetLength : \A pt \in pf..GetLength : \A t \in AllT12r :
            \A r \in SetTransliteratorResult(chunks, pf, pt, t) :
               ~r.fault =>
                  /\ Len(r.cs) = Len(chunks)
                  /\ \A c \in 1..Len(chunks) :
                        /\ r.cs[c].raw = chunks[c].raw
                        /\ r.cs[c].conversion = chunks[c].conversion
                        /\ r.cs[c].pending = chunks[c].pending
                        /\ r.cs[c].t12r \in {chunks[c].t12r, t}
                        /\ ~SpanIntersects(chunks, c, pf, pt)
                              => r.cs[c].t12r = chunks[c].t12r
                  /\ \A P \in ConcreteT12r :
                        GetLengthOf(r.cs, P) = GetLengthOf(chunks, P))
    /\ [][(\E pf \in Positions, pt \in Positions, t \in SetT12r :
              SetTransliterator(pf, pt, t))
          => input_t12r' = input_t12r /\ table' = table]_vars

\* C33 witness: two chunks with text in the default view, an input
\* transliterator other than the null one, and a range inside the first
\* chunk with a transliterator that neither chunk has: the first chunk takes
\* it, the second keeps its own.
C33_Witness ==
    /\ Len(chunks) = 2
    /\ input_t12r # kNullT12r
    /\ ChunkLength(chunks[1], kNullT12r) > 0
    /\ ChunkLength(chunks[2], kNullT12r) > 0
    /\ ~SpanIntersects(chunks, 2, 0, 0)
    /\ \E t \in SetT12r :
          \E r \in SetTransliteratorResult(chunks, 0, 0, t) :
             /\ ~r.fault
             /\ chunks[1].t12r # t
             /\ chunks[2].t12r # t
             /\ r.cs[1].t12r = t
             /\ r.cs[2].t12r = chunks[2].t12r

\* C34: a step of ConvertPosition, GetTransliterator, GetLength,
\* GetStringWithModes, GetString or GetPreedit leaves the list of chunks
\* (their number, order, text and transliterators), the input transliterator
\* and the table as they were, whatever the position and the
\* transliterators: a step that changes any of them is not a step of a
\* query; ConvertPosition in particular leaves the number of chunks as it
\* was.
C34_QueriesReadOnly ==
    [][(\/ chunks' # chunks
        \/ Len(chunks') # Len(chunks)
        \/ input_t12r' # input_t12r
        \/ table' # table)
       => ~(\/ \E pf \in Positions, tf \in AllT12r, tt \in AllT12r :
                  CallConvertPosition(pf, tf, tt)
            \/ \E position \in Positions : CallGetTransliterator(position)
            \/ CallGetLength
            \/ \E t \in AllT12r, trim_mode \in TrimModes,
                  composition \in Compositions :
                  CallGetStringWithModes(t, trim_mode, composition)
            \/ \E composition \in Compositions : CallGetString(composition)
            \/ \E position \in Positions : CallGetPreedit(position))]_vars

\* C34 witness: a buffer with a chunk of two units and an input
\* transliterator other than the null one, where position 1 lies strictly
\* inside the chunk, so that an editing operation would split it, and the
\* queries can be called there.
C34_Witness ==
    /\ ~crashed
    /\ input_t12r # kNullT12r
    /\ SplitsAt(chunks, 1)
    /\ ConvertPosition(chunks, 1, kNullT12r, "RAW") = 1
    /\ ENABLED CallConvertPosition(1, kNullT12r, "RAW")
    /\ ENABLED CallGetTransliterator(1)
    /\ ENABLED CallGetPreedit(1)

----------------------------------------------------------------------------
(* The empty buffer. *)

\* C35 as claimed: on a buffer with no chunks SetDisplayMode returns 0 and
\* leaves its transliterator as the input transliterator, SetTransliterator
\* with positions 0 and 0 changes nothing, GetTransliterator has one
\* outcome, a transliterator, and none of the three fails.
C35_Original ==
    chunks = <<>> =>
        /\ \A t \in AllT12r :
              /\ SetDisplayModeResult(chunks, input_t12r, 0, t)
                    = {[cs |-> <<>>, input |-> t, ret |-> 0, fault |-> FALSE]}
              /\ SetTransliteratorResult(chunks, 0, 0, t)
                    = {[cs |-> <<>>, fault |-> FALSE]}
        /\ \A position \in Positions :
              /\ Cardinality(GetTransliteratorResult(chunks, position)) = 1
              /\ \A r \in GetTransliteratorResult(chunks, position) :
                    ~r.fault /\ r.ret \in AllT12r

\* C36: an Erase step leaves the input transliterator and the table as they
\* were, and the buffer just as the constructor followed by SetTable and
\* SetInputMode with that input transliterator leaves it (no chunks, not
\* failed), so that every sequence of operations goes on from it as from a
\* new buffer; an insertion into it has an outcome, none that fails at
\* position 0, and every chunk of every outcome that does not fail has that
\* input transliterator.
C36_EraseKeepsConfiguration ==
    [][Erase =>
          /\ input_t12r' = input_t12r
          /\ table' = table
          /\ table' = kTable
          /\ vars' = <<<<>>, input_t12r, FALSE, table>>
          /\ \A pos \in 0..1, input \in Inputs \ {<<>>} :
                LET rs == InsertAtResult(chunks', input_t12r', pos, input)
                IN  /\ rs # {}
                    /\ pos = 0 => \A r \in rs : ~r.fault
                    /\ \A r \in rs :
                          ~r.fault =>
                             /\ r.cs # <<>>
                             /\ \A c \in 1..Len(r.cs) : r.cs[c].t12r = input_t12r
          /\ \A kp \in KeyPreeditInputs \ {<< <<>>, <<>> >>} :
                \A r \in InsertKeyAndPreeditAtResult(chunks', input_t12r', 0,
                                                     kp[1], kp[2]) :
                   /\ ~r.fault
                   /\ \A c \in 1..Len(r.cs) : r.cs[c].t12r = input_t12r]_vars

\* C36 witness: a buffer with an input transliterator other than the null
\* one and a chunk with another transliterator than that, where Erase can
\* be taken; a chunk inserted into the emptied buffer has the input
\* transliterator, not the one of the chunk that was there.
C36_Witness ==
    /\ ENABLED Erase
    /\ input_t12r # kNullT12r
    /\ chunks # <<>>
    /\ \A c \in 1..Len(chunks) : chunks[c].t12r # input_t12r
    /\ \E r \in InsertAtResult(<<>>, input_t12r, 0, <<"a">>) :
          /\ ~r.fault
          /\ Len(r.cs) = 1
          /\ r.cs[1].t12r = input_t12r
          /\ r.cs[1].t12r # chunks[1].t12r

====
